---- MODULE Spec2Model ----
(***************************************************************************)
(* A model of household-manager: the manual search pipeline of            *)
(* household/utils.py (is_valid_pdf_url, extract_pdf_url_from_google_link, *)
(* search_manual_with_openai, search_manual_online), its PDF download and  *)
(* text extraction, the maintenance miner, the label OCR and parser, and   *)
(* the task and house views of household/views.py.                         *)
(*                                                                         *)
(* Python strings are TLA+ strings; Len, SubSeq and \o act on them.        *)
(* Python's None is the empty tuple <<>>, and a present value v is <<v>>.  *)
(***************************************************************************)
EXTENDS Integers, Sequences, FiniteSets, TLC

None == <<>>
Some(v) == <<v>>
IsNone(o) == o = <<>>
Val(o) == o[1]

(***************************************************************************)
(* str methods used by the code.  A string is scanned by position, and     *)
(* built by joining pieces pairwise, so no evaluation nests deeper than    *)
(* the logarithm of a string's length.                                     *)
(***************************************************************************)
CharAt(s, i) == SubSeq(s, i, i)

Min(S) == CHOOSE x \in S : \A y \in S : x <= y
Max(S) == CHOOSE x \in S : \A y \in S : x >= y

\* ''.join(pieces[lo .. hi])
Concat[pieces \in Seq(STRING), lo \in Nat, hi \in Nat] ==
    IF lo > hi THEN ""
    ELSE IF lo = hi THEN pieces[lo]
    ELSE Concat[pieces, lo, (lo + hi) \div 2] \o Concat[pieces, ((lo + hi) \div 2) + 1, hi]

Join(pieces) == Concat[pieces, 1, Len(pieces)]

\* str.startswith
StartsWith(s, p) == Len(s) >= Len(p) /\ SubSeq(s, 1, Len(p)) = p

\* str.endswith
EndsWith(s, p) == Len(s) >= Len(p) /\ SubSeq(s, Len(s) - Len(p) + 1, Len(s)) = p

\* The positions >= i where p occurs in s
Occurrences(s, p, i) == {k \in i..(Len(s) - Len(p) + 1) : SubSeq(s, k, k + Len(p) - 1) = p}

\* str.find from position i on, 1-based; 0 when p does not occur
FindFrom[s \in STRING, p \in STRING, i \in Nat] ==
    IF Occurrences(s, p, i) = {} THEN 0 ELSE Min(Occurrences(s, p, i))

Find(s, p) == FindFrom[s, p, 1]

\* `p in s`
Contains(s, p) == \E k \in 1..(Len(s) - Len(p) + 1) : SubSeq(s, k, k + Len(p) - 1) = p

\* str.rfind, 1-based; 0 when p does not occur
RFindStr[s \in STRING, p \in STRING] ==
    IF Occurrences(s, p, 1) = {} THEN 0 ELSE Max(Occurrences(s, p, 1))

RFind(s, p) == RFindStr[s, p]

\* str.count of a single character
CountChar(s, c) == Cardinality(Occurrences(s, c, 1))

\* s.split(sep): the list of pieces, for a non-empty sep
SplitFrom[s \in STRING, sep \in STRING, i \in Nat] ==
    IF FindFrom[s, sep, i] = 0 THEN <<SubSeq(s, i, Len(s))>>
    ELSE <<SubSeq(s, i, FindFrom[s, sep, i] - 1)>>
            \o SplitFrom[s, sep, FindFrom[s, sep, i] + Len(sep)]

Split(s, sep) == SplitFrom[s, sep, 1]

\* s.split(sep)[0]
BeforeFirst(s, sep) == SplitFrom[s, sep, 1][1]

\* s.split(sep, 1)[1], for s that contains sep
AfterSep[s \in STRING, sep \in STRING] == SubSeq(s, FindFrom[s, sep, 1] + Len(sep), Len(s))

AfterFirst(s, sep) == AfterSep[s, sep]

\* The printable ASCII characters in code order: 32 (space) to 95 (_), and
\* 97 (a) to 126 (~). Code 96 (the grave accent) cannot be written in a
\* string of this language and is left out.
AsciiLow == " !\"#$%&'()*+,-./0123456789:;<=>?@ABCDEFGHIJKLMNOPQRSTUVWXYZ[\\]^_"
AsciiHigh == "abcdefghijklmnopqrstuvwxyz{|}~"

AsciiChars == {CharAt(AsciiLow, i) : i \in 1..Len(AsciiLow)}
                 \cup {CharAt(AsciiHigh, i) : i \in 1..Len(AsciiHigh)}

\* ord(c) for a printable ASCII character
CodeOf == [c \in AsciiChars |->
             IF Contains(AsciiLow, c) THEN 31 + Find(AsciiLow, c) ELSE 96 + Find(AsciiHigh, c)]

\* chr(n); a code outside the printable ASCII characters decodes to the
\* replacement mark
ReplacementChar == "<?>"
CharOfCode(n) ==
    IF n \in 32..95 THEN CharAt(AsciiLow, n - 31)
    ELSE IF n \in 97..126 THEN CharAt(AsciiHigh, n - 96)
    ELSE ReplacementChar

UpperChars == {"A", "B", "C", "D", "E", "F", "G", "H", "I", "J", "K", "L", "M",
               "N", "O", "P", "Q", "R", "S", "T", "U", "V", "W", "X", "Y", "Z"}
LowerChars == {CharAt(AsciiHigh, i) : i \in 1..26}
DigitChars == {CharAt(AsciiLow, i) : i \in 17..26}
LowerOf == [c \in UpperChars |-> CharOfCode(CodeOf[c] + 32)]

\* str.lower
LowerStr[s \in STRING] ==
    Join([i \in 1..Len(s) |->
            IF CharAt(s, i) \in UpperChars THEN LowerOf[CharAt(s, i)] ELSE CharAt(s, i)])

Lower(s) == LowerStr[s]

IsAlpha(c) == c \in UpperChars \/ c \in LowerChars
IsDigit(c) == c \in DigitChars

\* The positions of s whose character is not in chars
Outside(s, chars) == {i \in 1..Len(s) : CharAt(s, i) \notin chars}

\* str.strip of spaces
StripStr[s \in STRING] ==
    IF Outside(s, {" "}) = {} THEN ""
    ELSE SubSeq(s, Min(Outside(s, {" "})), Max(Outside(s, {" "})))

Strip(s) == StripStr[s]

\* str.rstrip(chars)
RStripStr[s \in STRING, chars \in SUBSET STRING] ==
    IF Outside(s, chars) = {} THEN "" ELSE SubSeq(s, 1, Max(Outside(s, chars)))

RStrip(s, chars) == RStripStr[s, chars]

(***************************************************************************)
(* urllib.parse as the code uses it                                        *)
(***************************************************************************)
HexDigits == "0123456789ABCDEFabcdef"
HexChars == {CharAt(HexDigits, i) : i \in 1..Len(HexDigits)}
IsHex(c) == c \in HexChars
HexValOf == [c \in HexChars |->
               IF Find(HexDigits, c) <= 16 THEN Find(HexDigits, c) - 1 ELSE Find(HexDigits, c) - 7]

\* urllib.parse.unquote: every %XY with two hex digits becomes the character
\* of that code; any other '%' is kept.  ('%' is no hex digit, so whether an
\* escape starts at a position does not depend on the positions before it.)
StartsEscape(s, i) ==
    /\ i >= 1
    /\ i + 2 <= Len(s)
    /\ CharAt(s, i) = "%"
    /\ IsHex(CharAt(s, i + 1))
    /\ IsHex(CharAt(s, i + 2))

UnquoteStr[s \in STRING] ==
    Join([i \in 1..Len(s) |->
            IF StartsEscape(s, i)
            THEN CharOfCode(16 * HexValOf[CharAt(s, i + 1)] + HexValOf[CharAt(s, i + 2)])
            ELSE IF StartsEscape(s, i - 1) \/ StartsEscape(s, i - 2) THEN ""
            ELSE CharAt(s, i)])

Unquote(s) == UnquoteStr[s]

\* The characters urllib.parse.quote never escapes
IsUnreserved(c) == IsAlpha(c) \/ IsDigit(c) \/ c \in {"_", ".", "-", "~"}

HexUpper == "0123456789ABCDEF"
PercentEscape(c) ==
    "%" \o CharAt(HexUpper, (CodeOf[c] \div 16) + 1) \o CharAt(HexUpper, (CodeOf[c] % 16) + 1)

\* urllib.parse.quote(s, safe)
QuoteStr[s \in STRING, safe \in STRING] ==
    Join([i \in 1..Len(s) |->
            IF IsUnreserved(CharAt(s, i)) \/ Contains(safe, CharAt(s, i))
            THEN CharAt(s, i) ELSE PercentEscape(CharAt(s, i))])

Quote(s, safe) == QuoteStr[s, safe]

\* str.replace of one character by a string
ReplaceStr[s \in STRING, c \in STRING, r \in STRING] ==
    Join([i \in 1..Len(s) |-> IF CharAt(s, i) = c THEN r ELSE CharAt(s, i)])

ReplaceChar(s, c, r) == ReplaceStr[s, c, r]

\* urllib.parse.quote_plus of a str: quote(s, ' ') with spaces turned to '+'
QuotePlus(s) == ReplaceChar(Quote(s, " "), " ", "+")

IsSchemeChar(c) == IsAlpha(c) \/ IsDigit(c) \/ c \in {"+", "-", "."}

\* The first position >= i of '/', '?' or '#' in s, or Len(s) + 1
NetlocEnd[s \in STRING, i \in Nat] ==
    IF \E k \in i..Len(s) : CharAt(s, k) \in {"/", "?", "#"}
    THEN Min({k \in i..Len(s) : CharAt(s, k) \in {"/", "?", "#"}})
    ELSE Len(s) + 1

UsesParams == {"", "ftp", "hdl", "prospero", "http", "imap", "https",
               "shttp", "rtsp", "rtspu", "sip", "sips", "mms", "sftp", "tel"}

\* urlparse, last step: the ;params of the last path segment
ParseParams[scheme \in STRING, netloc \in STRING, rest \in STRING, query \in STRING, fragment \in STRING] ==
    LET semi == IF RFind(rest, "/") > 0
                THEN FindFrom[rest, ";", RFind(rest, "/")]
                ELSE Find(rest, ";")
        hasParams == scheme \in UsesParams /\ semi > 0
    IN [raised   |-> (Contains(netloc, "[") /\ ~Contains(netloc, "]"))
                        \/ (Contains(netloc, "]") /\ ~Contains(netloc, "[")),
        scheme   |-> scheme,
        netloc   |-> netloc,
        path     |-> IF hasParams THEN SubSeq(rest, 1, semi - 1) ELSE rest,
        params   |-> IF hasParams THEN SubSeq(rest, semi + 1, Len(rest)) ELSE "",
        query    |-> query,
        fragment |-> fragment]

\* urlparse: the ?query
ParseQuery[scheme \in STRING, netloc \in STRING, rest \in STRING, fragment \in STRING] ==
    IF Contains(rest, "?")
    THEN ParseParams[scheme, netloc, BeforeFirst(rest, "?"), AfterFirst(rest, "?"), fragment]
    ELSE ParseParams[scheme, netloc, rest, "", fragment]

\* urlparse: the #fragment
ParseFragment[scheme \in STRING, netloc \in STRING, rest \in STRING] ==
    IF Contains(rest, "#")
    THEN ParseQuery[scheme, netloc, BeforeFirst(rest, "#"), AfterFirst(rest, "#")]
    ELSE ParseQuery[scheme, netloc, rest, ""]

\* urlparse: the //netloc, up to the first '/', '?' or '#'
ParseNetloc[scheme \in STRING, rest \in STRING] ==
    IF StartsWith(rest, "//")
    THEN ParseFragment[scheme, SubSeq(rest, 3, NetlocEnd[rest, 3] - 1),
                       SubSeq(rest, NetlocEnd[rest, 3], Len(rest))]
    ELSE ParseFragment[scheme, "", rest]

\* urllib.parse.urlparse: [raised, scheme, netloc, path, params, query, fragment]
\* (raised: the ValueError of an unbalanced bracket in the netloc)
ParseScheme[u \in STRING] ==
    LET colon == Find(u, ":")
        hasScheme == /\ colon > 1
                     /\ IsAlpha(CharAt(u, 1))
                     /\ \A i \in 1..(colon - 1) : IsSchemeChar(CharAt(u, i))
    IN IF hasScheme
       THEN ParseNetloc[Lower(SubSeq(u, 1, colon - 1)), SubSeq(u, colon + 1, Len(u))]
       ELSE ParseNetloc["", u]

UrlParse(u) == ParseScheme[u]

\* urllib.parse.parse_qs(query).get(name, [])[0]: the first value of the
\* field called name; a field without '=' or with an empty value is dropped.
FirstValue[fields \in Seq(STRING), name \in STRING, i \in Nat] ==
    IF i > Len(fields) THEN None
    ELSE IF /\ Contains(fields[i], "=")
            /\ Unquote(ReplaceChar(BeforeFirst(fields[i], "="), "+", " ")) = name
            /\ AfterFirst(fields[i], "=") # ""
         THEN Some(Unquote(ReplaceChar(AfterFirst(fields[i], "="), "+", " ")))
         ELSE FirstValue[fields, name, i + 1]

QueryValue(query, name) == FirstValue[Split(query, "&"), name, 1]

(***************************************************************************)
(* is_valid_pdf_url                                                        *)
(***************************************************************************)
\* `if not url` (line 36)
IsEmptyUrl(url) == url = ""

\* url.startswith(('http://', 'https://')) (line 47)
HasHttpPrefix(url) == StartsWith(url, "http://") \/ StartsWith(url, "https://")

\* The domain check (lines 51-57): urlparse must not raise, and the netloc
\* must be non-empty and contain a dot.
HasDomain(url) ==
    /\ ~UrlParse(url).raised
    /\ UrlParse(url).netloc # ""
    /\ CountChar(UrlParse(url).netloc, ".") # 0

\* The Google search / redirect page check (line 60)
IsGoogleSearchUrlSearchOnly(url) == Contains(Lower(url), "google.com/search")

IsGoogleSearchUrl(url) ==
    Contains(Lower(url), "google.com/search") \/ Contains(Lower(url), "google.com/url")

\* The redirect parameter patterns (line 66)
HasRedirectPattern(url) == Contains(url, "/url?q=") \/ Contains(url, "/url?url=")

\* 'redirect' in the path (lines 70-71)
HasRedirectInPath(url) == Contains(Lower(UrlParse(url).path), "redirect")

\* has_pdf_indicator (lines 76-82)
HasPdfIndicatorSegmentOnly(url) == Contains(Lower(UrlParse(url).path), "/pdf")

HasPdfIndicator(url) ==
    LET path_lower == Lower(UrlParse(url).path)
    IN EndsWith(path_lower, ".pdf") \/ Contains(path_lower, "/pdf")

\* The search query parameters (line 88)
HasSearchParams(url) ==
    LET url_lower == Lower(url)
    IN \/ Contains(url_lower, "search?q=")
       \/ Contains(url_lower, "sca_esv=")
       \/ Contains(url_lower, "source=lnms")

\* The checks of lines 47-91, on the unquoted url
ChecksUnquoted[url \in STRING] ==
    /\ HasHttpPrefix(url)
    /\ HasDomain(url)
    /\ ~IsGoogleSearchUrl(url)
    /\ ~HasRedirectPattern(url)
    /\ ~HasRedirectInPath(url)
    /\ HasPdfIndicator(url)
    /\ ~HasSearchParams(url)

\* is_valid_pdf_url(url) for a str url: the url is unquoted first (line 42)
\* and every later check reads the unquoted string.
is_valid_pdf_url(raw) ==
    IF IsEmptyUrl(raw) THEN FALSE ELSE ChecksUnquoted[Unquote(raw)]

(***************************************************************************)
(* extract_pdf_url_from_google_link                                        *)
(***************************************************************************)
\* Some(u) if u is a valid PDF URL
ValidOrNone[u \in STRING] == IF is_valid_pdf_url(u) THEN Some(u) ELSE None

\* The '/url?q=' branch (lines 103-115): href.split('/url?q=')[1].split('&')[0],
\* unquoted, if it is a valid PDF URL.
RedirectTargetKeepQuoted(href) ==
    IF StartsWith(href, "/url?q=")
    THEN ValidOrNone[Split(Split(href, "/url?q=")[2], "&")[1]]
    ELSE None

RedirectTarget(href) ==
    IF StartsWith(href, "/url?q=")
    THEN ValidOrNone[Unquote(Split(Split(href, "/url?q=")[2], "&")[1])]
    ELSE None

\* The '/url?...url=' branch (lines 118-129): the first value of the query
\* parameter url, unquoted once more, if it is a valid PDF URL.
UrlParamValue[href \in STRING] ==
    IF UrlParse(href).raised THEN None ELSE QueryValue(UrlParse(href).query, "url")

UrlParamTarget(href) ==
    IF Contains(href, "/url?") /\ Contains(href, "url=") /\ ~IsNone(UrlParamValue[href])
    THEN ValidOrNone[Unquote(Val(UrlParamValue[href]))]
    ELSE None

\* The direct link branch (lines 132-134)
DirectTarget(href) ==
    IF StartsWith(href, "http://") \/ StartsWith(href, "https://")
    THEN ValidOrNone[href] ELSE None

\* extract_pdf_url_from_google_link(href) for a str href
ExtractFrom[href \in STRING] ==
    IF href = "" THEN None
    ELSE IF ~IsNone(RedirectTarget(href)) THEN RedirectTarget(href)
    ELSE IF ~IsNone(UrlParamTarget(href)) THEN UrlParamTarget(href)
    ELSE DirectTarget(href)

extract_pdf_url_from_google_link(href) == ExtractFrom[href]

(***************************************************************************)
(* Values of search_manual_online and search_manual_with_openai            *)
(***************************************************************************)
\* Python truthiness of an optional str (`if brand`, `not model_number`)
Truthy(o) == ~IsNone(o) /\ Val(o) # ""

\* An optional str inside an f-string (None prints as 'None')
Str(o) == IF IsNone(o) THEN "None" ELSE Val(o)

\* f"{brand} {model_number} Manual" (lines 229, 258, 307, 346, 607)
DefaultTitle(b, m) == Str(b) \o " " \o Str(m) \o " Manual"

\* link.get_text().strip() or f"{brand} {model_number} Manual"
TitleOf(text, b, m) == IF Strip(text) # "" THEN Strip(text) ELSE DefaultTitle(b, m)

\* The dictionaries the two functions return
Result(u, title) == Some([url |-> u, title |-> title, note |-> None])

\* The support page result (lines 648-652)
SupportResult(u, b, m) ==
    Some([url   |-> u,
          title |-> DefaultTitle(b, m) \o " (Support Page)",
          note  |-> Some("This is the manufacturer support page. Please search for model "
                            \o Str(m) \o " on that page to find the manual PDF.")])

\* 'pdf' in content_type, for the Content-Type of a HEAD response
IsPdfType(content_type) == Contains(Lower(content_type), "pdf")

\* url.lower().endswith('.pdf')
EndsWithPdf(u) == EndsWith(Lower(u), ".pdf")

\* What a HEAD request does: it raises, or it answers with a Content-Type
HeadOutcomes == {[raised |-> TRUE, content_type |-> ""],
                 [raised |-> FALSE, content_type |-> "application/pdf"],
                 [raised |-> FALSE, content_type |-> "text/html; charset=utf-8"]}

(***************************************************************************)
(* State                                                                   *)
(***************************************************************************)
VARIABLES
    pc,             \* where the call under way stands
    urlParts,       \* the URL handed to is_valid_pdf_url, or wrapped into an href
    valid,          \* what is_valid_pdf_url returned
    hrefForm,       \* how the href handed to extract_pdf_url_from_google_link is built
    resolved,       \* what extract_pdf_url_from_google_link returned
    brand,          \* search_manual_online: argument brand (str or None)
    model_number,   \* argument model_number (str or None)
    appliance_name, \* argument appliance_name (str or None)
    use_openai,     \* argument use_openai
    answer,         \* search_manual_with_openai: the parsed JSON answer (result)
    openai_result,  \* what search_manual_with_openai returned
    idx,            \* position in manual_paths, manual_library_sites, search_urls
    plan,           \* the HEAD requests and steps still ahead, in order
    heads,          \* the HEAD requests made by the call or page under way
    attempted,      \* the strategies that were started
    requested,      \* the strategies that issued a request
    foundBy,        \* the strategy whose candidate is returned
    result,         \* what search_manual_online returned
    args,           \* the arguments of the function applied on its own
    ret,            \* what that function returned
    store,          \* the MaintenanceTask rows of the database
    created         \* the rows each run of extract_maintenance created

utilVars == <<urlParts, valid, hrefForm, resolved>>

searchVars == <<brand, model_number, appliance_name, use_openai, answer, openai_result,
                idx, plan, heads, attempted, requested, foundBy, result>>

docVars == <<args, ret, store, created>>

vars == <<pc, utilVars, searchVars, docVars>>

\* No search under way: the state of the variables of search_manual_online
\* while is_valid_pdf_url or extract_pdf_url_from_google_link is applied alone
SearchIdle ==
    /\ brand = None /\ model_number = None /\ appliance_name = None
    /\ use_openai = FALSE
    /\ answer = None /\ openai_result = None
    /\ idx = 0 /\ plan = <<>> /\ heads = <<>>
    /\ attempted = {} /\ requested = {} /\ foundBy = "none"
    /\ result = None

\* No document function under way and an empty database
DocIdle == args = None /\ ret = None /\ store = {} /\ created = <<>>

(***************************************************************************)
(* The URLs the validator and the resolver are applied to                  *)
(***************************************************************************)
Schemes == {"https://", "http://", "https%3A%2F%2F", "file://", ""}
Hosts == {"example.com", "www.google.com", "localhost", "user.name@localhost", ""}
Dirs == {"", "/docs", "/redirect", "/url", "/pdf"}
Names == {"/manual.pdf", "/Manual.PDF", "/manual.html", "/search", "/url", "/a%3Fb.pdf", ""}
Queries == {"", "?q=test+pdf", "?q=https://example.com/manual.pdf", "?sca_esv=0ee57afb",
            "?file=manual.pdf", "&redirect=true"}

UrlPartsSet == [scheme : Schemes, host : Hosts, dir : Dirs, name : Names, query : Queries]

UrlOf(parts) == parts.scheme \o parts.host \o parts.dir \o parts.name \o parts.query

url == UrlOf(urlParts)

\* The hrefs of a scraped result page that wrap a URL U
HrefForms == {"redirect", "redirect_all", "redirect_raw", "url_param", "direct", "relative"}
SaTail == "&sa=U&ved=0ahUKEwiAzf"

MakeHref(form, U) ==
    CASE form = "redirect"     -> "/url?q=" \o Quote(U, "/") \o SaTail
      [] form = "redirect_all" -> "/url?q=" \o Quote(U, "") \o "&sa=U"
      [] form = "redirect_raw" -> "/url?q=" \o U \o "&sa=U"
      [] form = "url_param"    -> "/url?sa=t&url=" \o Quote(U, "") \o "&ved=2ah"
      [] form = "direct"       -> U
      [] form = "relative"     -> "/search?q=" \o Quote(U, "")

href == MakeHref(hrefForm, url)

(***************************************************************************)
(* SpecValidator: is_valid_pdf_url applied to one URL                      *)
(***************************************************************************)
InitValidator ==
    /\ pc = "call"
    /\ urlParts \in UrlPartsSet
    /\ valid = FALSE
    /\ hrefForm = "direct"
    /\ resolved = None
    /\ SearchIdle
    /\ DocIdle

Validate ==
    /\ pc = "call"
    /\ valid' = is_valid_pdf_url(url)
    /\ pc' = "done"
    /\ UNCHANGED <<urlParts, hrefForm, resolved, searchVars, docVars>>

NextValidator == Validate

SpecValidator == InitValidator /\ [][NextValidator]_vars

(***************************************************************************)
(* SpecResolver: extract_pdf_url_from_google_link applied to one href      *)
(***************************************************************************)
ResolverSchemes == {"https://", "http://", ""}
ResolverHosts == {"example.com", "www.google.com", "localhost"}
ResolverNames == {"/manual.pdf", "/manual.html", "/search", "/a%3Fb.pdf"}
ResolverQueries == {"", "?q=test+pdf", "?file=manual.pdf"}

ResolverPartsSet ==
    [scheme : ResolverSchemes, host : ResolverHosts, dir : Dirs,
     name : ResolverNames, query : ResolverQueries]

InitResolver ==
    /\ pc = "call"
    /\ urlParts \in ResolverPartsSet
    /\ hrefForm \in HrefForms
    /\ valid = FALSE
    /\ resolved = None
    /\ SearchIdle
    /\ DocIdle

Resolve ==
    /\ pc = "call"
    /\ resolved' = extract_pdf_url_from_google_link(href)
    /\ pc' = "done"
    /\ UNCHANGED <<urlParts, hrefForm, valid, searchVars, docVars>>

NextResolver == Resolve

SpecResolver == InitResolver /\ [][NextResolver]_vars

(***************************************************************************)
(* search_manual_online: arguments, pages and scans                        *)
(***************************************************************************)
\* Bounds of the answers and pages the environment hands back
MaxAlts == 1
MaxAnchors == 2

SeqsUpTo(S, n) == UNION {[1..k -> S] : k \in 0..n}

\* The value a table (a set of <<key, value>>) holds for a key.  The scans
\* below apply is_valid_pdf_url and extract_pdf_url_from_google_link to the
\* same few strings for every page: an action computes their values on the
\* strings a page can hold once, and its scans look them up.
At(table, key) == (CHOOSE e \in table : e[1] = key)[2]

Brands == {None, Some(""), Some("Samsung"), Some("Sub Zero")}
ModelNumbers == {None, Some(""), Some("RF28")}
ApplianceNames == {None, Some("Refrigerator")}

\* The precondition with 'absent' only: an empty string counts as information
NoIdentifyingInfoAbsentOnly(b, m) == IsNone(b) /\ IsNone(m)

\* if not brand and not model_number (line 156)
NoIdentifyingInfo(b, m) == ~Truthy(b) /\ ~Truthy(m)

\* brand.lower() if brand else '' (line 199)
BrandLower(b) == IF Truthy(b) THEN Lower(Val(b)) ELSE ""

\* manufacturer_sites (lines 193-197)
manufacturer_sites ==
    [name \in {"sub zero", "subzero", "sub-zero"} |-> "https://www.subzero-wolf.com"]

\* manual_paths (lines 203-207)
manual_paths(base_url) ==
    <<base_url \o "/support/manuals", base_url \o "/manuals", base_url \o "/support">>

\* manual_library_sites (lines 235-238)
manual_library_sites(b, m) ==
    <<"https://www.manualslib.com/search.html?q=" \o QuotePlus(Str(b) \o " " \o Str(m)),
      "https://www.manualsonline.com/search.html?q=" \o QuotePlus(Str(b) \o " " \o Str(m))>>

\* " ".join(query_parts) + " manual pdf" (lines 180-188)
JoinParts[parts \in Seq(STRING), i \in Nat] ==
    IF i > Len(parts) THEN ""
    ELSE IF i = Len(parts) THEN parts[i]
    ELSE parts[i] \o " " \o JoinParts[parts, i + 1]

query(b, m, n) ==
    JoinParts[(IF Truthy(b) THEN <<Val(b)>> ELSE <<>>)
                \o (IF Truthy(m) THEN <<Val(m)>> ELSE <<>>)
                \o (IF Truthy(n) THEN <<Val(n)>> ELSE <<>>), 1] \o " manual pdf"

\* The third entry of search_urls is built when brand and 'sub' in
\* brand_lower (line 269); quote_plus(None) raises a TypeError there
SiteSearchWanted(b) == Truthy(b) /\ Contains(BrandLower(b), "sub")

SearchUrlsRaises(b, m) == SiteSearchWanted(b) /\ IsNone(m)

\* search_urls (lines 265-272)
search_urls(b, m, n) ==
    <<"https://www.google.com/search?q=" \o QuotePlus(query(b, m, n)) \o "+filetype:pdf",
      "https://www.google.com/search?q=" \o QuotePlus(query(b, m, n)) \o "&tbm=isch&tbs=ift:pdf">>
    \o (IF SiteSearchWanted(b)
        THEN <<"https://www.google.com/search?q=" \o QuotePlus(Val(b)) \o "+"
                  \o QuotePlus(Val(m)) \o "+manual+site:subzero-wolf.com+filetype:pdf">>
        ELSE <<>>)

\* The anchors (a, href=True) of a fetched page: href, get_text(), and
\* whether the anchor sits inside a div that has a data-ved attribute
Anchors == [href : STRING, text : STRING, ved : BOOLEAN]

AnchorPool ==
    {[href |-> "/url?q=https://example.com/manual.pdf&sa=U", text |-> "Manual PDF", ved |-> FALSE],
     [href |-> "/url?q=https://www.google.com/search?q=test&sca_esv=123", text |-> "Invalid", ved |-> FALSE],
     [href |-> "https://example.com/pdf/RF28", text |-> " ", ved |-> TRUE],
     [href |-> "/docs/RF28.pdf", text |-> "RF28 Use and Care", ved |-> FALSE],
     [href |-> "/url?q=https://example.com/guide.pdf&back=/search?q=guide", text |-> "Guide", ved |-> TRUE]}

\* What the two patterns of lines 323-326 find in the body of a page
MatchLists ==
    {<<>>,
     <<"https://example.com/inline.pdf">>,
     <<"https://example.com/pdf/view;">>,
     <<"https://www.google.com/search?q=a.pdf", "https://example.com/manual.pdf">>}

Pages == [anchors : SeqsUpTo(AnchorPool, MaxAnchors), matches : MatchLists]

EmptyPage == [anchors |-> <<>>, matches |-> <<>>]

\* What a GET request does: it raises, or it answers with a status and a body
GetOutcomes ==
    {[raised |-> TRUE, status_code |-> 0, page |-> EmptyPage],
     [raised |-> FALSE, status_code |-> 404, page |-> EmptyPage]}
    \cup {[raised |-> FALSE, status_code |-> 200, page |-> p] : p \in Pages}

\* Strategy 1, one anchor of a manufacturer page (lines 216-221): a relative
\* href is made absolute, an href that is not http is passed over
ManufacturerHref(a, base_url) ==
    IF StartsWith(a.href, "/") THEN Some(base_url \o a.href)
    ELSE IF ~StartsWith(a.href, "http") THEN None
    ELSE Some(a.href)

\* Strategy 1, one anchor (lines 216-226): it is passed over, or
\* model_number.lower() raises on it (model_number is None and the href
\* holds '.pdf'), or it is the link that is returned
ManufacturerLink[a \in Anchors, base_url \in STRING, m \in Seq(STRING)] ==
    IF IsNone(ManufacturerHref(a, base_url)) THEN "skip"
    ELSE IF ~Contains(Lower(Val(ManufacturerHref(a, base_url))), ".pdf") THEN "skip"
    ELSE IF IsNone(m) THEN "raise"
    ELSE IF /\ \/ Contains(Lower(Val(ManufacturerHref(a, base_url))), Lower(Val(m)))
               \/ Contains(Lower(a.text), Lower(Val(m)))
            /\ is_valid_pdf_url(Val(ManufacturerHref(a, base_url)))
         THEN "return"
    ELSE "skip"

ManufacturerLinks(base_url, m) == {<<a, ManufacturerLink[a, base_url, m]>> : a \in AnchorPool}

\* Strategy 1, the anchors of one page in order (lines 215-232): the scan
\* stops at the first anchor that is not passed over; the bare except of
\* line 231 turns a raise into a page without a link
ManufacturerStop(anchors, links) ==
    IF \A i \in 1..Len(anchors) : At(links, anchors[i]) = "skip" THEN 0
    ELSE Min({i \in 1..Len(anchors) : At(links, anchors[i]) # "skip"})

ManufacturerPick(anchors, stop, links, base_url, b, m) ==
    IF stop = 0 THEN None
    ELSE IF At(links, anchors[stop]) = "raise" THEN None
    ELSE Result(Val(ManufacturerHref(anchors[stop], base_url)), TitleOf(anchors[stop].text, b, m))

\* f"{parsed.scheme}://{parsed.netloc}" of a library URL (lines 252-253)
LibraryBase(lib_url) == UrlParse(lib_url).scheme \o "://" \o UrlParse(lib_url).netloc

\* Strategy 2, one anchor of a library page (lines 248-253)
LibraryHref(a, base) == IF StartsWith(a.href, "/") THEN base \o a.href ELSE a.href

\* Strategy 2, one anchor (line 255)
LibraryLink[a \in Anchors, base \in STRING] ==
    /\ Contains(Lower(LibraryHref(a, base)), ".pdf")
    /\ is_valid_pdf_url(LibraryHref(a, base))

LibraryLinks(base) == {<<a, LibraryLink[a, base]>> : a \in AnchorPool}

\* Strategy 2, the anchors of one page in order (lines 247-259)
LibraryStop(anchors, links) ==
    IF \A i \in 1..Len(anchors) : ~At(links, anchors[i]) THEN 0
    ELSE Min({i \in 1..Len(anchors) : At(links, anchors[i])})

LibraryPick(anchors, stop, base, b, m) ==
    IF stop = 0 THEN None
    ELSE Result(LibraryHref(anchors[stop], base), TitleOf(anchors[stop].text, b, m))

\* Strategy 3: the candidates of a result page that get a HEAD request, in
\* the order the page is scanned, each with the text of its anchor and the
\* scan that found it.  found_urls (line 279) does not depend on what the
\* HEAD requests answer, so the list is known once the page is fetched.
Candidate(u, text, phase) == [url |-> u, text |-> text, phase |-> phase]

UrlsOf(cands) == {cands[k].url : k \in 1..Len(cands)}

\* extract_pdf_url_from_google_link on the href of an anchor (lines 292, 364)
ActualUrls == {<<a, extract_pdf_url_from_google_link(a.href)>> : a \in AnchorPool}

\* rstrip('.,;') and unquote (lines 333-334; the splits before them leave a
\* match unchanged, no match of the two patterns holds a quote, an angle or
\* a parenthesis)
CleanMatch(match) == Unquote(RStrip(match, {".", ",", ";"}))

CleanedUrls == [url : STRING, valid : BOOLEAN]

\* A match of the body, cleaned, and whether it is valid (lines 333-336)
CleanedMatch[match \in STRING] ==
    [url |-> CleanMatch(match), valid |-> is_valid_pdf_url(CleanMatch(match))]

CleanedMatches ==
    UNION {{<<ms[k], CleanedMatch[ms[k]]>> : k \in 1..Len(ms)} : ms \in MatchLists}

\* The anchors (lines 284-296)
AnchorCandidates[anchors \in Seq(Anchors), actual \in Seq(Seq(STRING)), i \in Nat, found \in SUBSET STRING] ==
    IF i > Len(anchors) THEN <<>>
    ELSE IF Contains(anchors[i].href, "/search?q=") \/ StartsWith(anchors[i].href, "/search")
         THEN AnchorCandidates[anchors, actual, i + 1, found]
    ELSE IF IsNone(actual[i]) \/ Val(actual[i]) \in found
         THEN AnchorCandidates[anchors, actual, i + 1, found]
    ELSE <<Candidate(Val(actual[i]), anchors[i].text, "anchor")>>
            \o AnchorCandidates[anchors, actual, i + 1, found \cup {Val(actual[i])}]

\* The matches in the body (lines 328-337)
RegexCandidates[cleaned \in Seq(CleanedUrls), i \in Nat, found \in SUBSET STRING] ==
    IF i > Len(cleaned) THEN <<>>
    ELSE IF cleaned[i].valid /\ cleaned[i].url \notin found
         THEN <<Candidate(cleaned[i].url, "", "regex")>>
                 \o RegexCandidates[cleaned, i + 1, found \cup {cleaned[i].url}]
    ELSE RegexCandidates[cleaned, i + 1, found]

\* The anchors inside data-ved divs (lines 359-367)
VedCandidates[anchors \in Seq(Anchors), actual \in Seq(Seq(STRING)), i \in Nat, found \in SUBSET STRING] ==
    IF i > Len(anchors) THEN <<>>
    ELSE IF ~anchors[i].ved \/ IsNone(actual[i]) \/ Val(actual[i]) \in found
         THEN VedCandidates[anchors, actual, i + 1, found]
    ELSE (IF EndsWithPdf(Val(actual[i]))
          THEN <<Candidate(Val(actual[i]), anchors[i].text, "ved")>> ELSE <<>>)
            \o VedCandidates[anchors, actual, i + 1, found \cup {Val(actual[i])}]

PlanAfterRegex(anchors, actual, cands) ==
    cands \o VedCandidates[anchors, actual, 1, UrlsOf(cands)]

PlanAfterAnchors(anchors, actual, cleaned, cands) ==
    PlanAfterRegex(anchors, actual, cands \o RegexCandidates[cleaned, 1, UrlsOf(cands)])

PlanOfPage(anchors, actual, cleaned) ==
    PlanAfterAnchors(anchors, actual, cleaned, AnchorCandidates[anchors, actual, 1, {}])

WebPlan(page, actuals, cleaneds) ==
    PlanOfPage(page.anchors,
               [i \in 1..Len(page.anchors) |-> At(actuals, page.anchors[i])],
               [k \in 1..Len(page.matches) |-> At(cleaneds, page.matches[k])])

\* The candidate after its HEAD request: lines 301-315 for an anchor,
\* lines 341-354 for a match in the body, lines 369-381 for a data-ved
\* anchor; ends_pdf is url.lower().endswith('.pdf')
WebAccepts(cand, ends_pdf, head) ==
    IF head.raised THEN ends_pdf
    ELSE IF cand.phase = "anchor" THEN IsPdfType(head.content_type) \/ ends_pdf
    ELSE IsPdfType(head.content_type)

\* The dictionary returned for a candidate (lines 305-308, 344-347, 372-375)
WebResult(cand, b, m) ==
    IF cand.phase = "regex" THEN Result(cand.url, DefaultTitle(b, m))
    ELSE Result(cand.url, TitleOf(cand.text, b, m))

(***************************************************************************)
(* search_manual_with_openai: the answer of the language model             *)
(***************************************************************************)
\* config('OPENAI_API_KEY', default=None) (line 539)
ApiKeys == {None, Some(""), Some("sk-test")}

\* The URLs a model answer names
AnswerUrls ==
    {"https://example.com/manual.pdf",
     "https://example.com/pdf/RF28",
     "https://www.google.com/search?q=RF28+manual.pdf"}

SupportUrls ==
    {None,
     Some("https://www.samsung.com/us/support/"),
     Some("https://www.google.com/search?q=RF28+manual"),
     Some("support.samsung.com")}

\* alternative_urls of a parsed answer: the key is missing, its value is
\* null, or its value is a list
AlternativeUrls ==
    {[key |-> "missing", urls |-> <<>>], [key |-> "null", urls |-> <<>>]}
    \cup {[key |-> "list", urls |-> alts] : alts \in SeqsUpTo(AnswerUrls, MaxAlts)}

\* json.loads(json_match.group()) (line 592)
Answers ==
    [primary_url : {None} \cup {Some(u) : u \in AnswerUrls},
     alternative_urls : AlternativeUrls,
     manufacturer_support_url : SupportUrls]

NoAnswer ==
    [primary_url |-> None,
     alternative_urls |-> [key |-> "missing", urls |-> <<>>],
     manufacturer_support_url |-> None]

\* What the pattern of line 659 finds in an answer that is not JSON
TextMatches ==
    {<<>>,
     <<"https://www.google.com/search?q=a.pdf">>,
     <<"https://www.google.com/search?q=a.pdf", "https://example.com/manual.pdf">>}

\* What the chat completion does (lines 570-592, 657-660): the call raises;
\* the content holds no {...}; the content in braces is not JSON and the
\* .pdf pattern finds matches in it; the content in braces parses
Replies ==
    {[kind |-> "raised", matches |-> <<>>, json |-> NoAnswer],
     [kind |-> "prose", matches |-> <<>>, json |-> NoAnswer]}
    \cup {[kind |-> "text", matches |-> ms, json |-> NoAnswer] : ms \in TextMatches}
    \cup {[kind |-> "json", matches |-> <<>>, json |-> j] : j \in Answers}

\* is_valid_pdf_url on the URLs an answer can name (lines 595, 619, 662)
AnswerValidity ==
    {<<u, is_valid_pdf_url(u)>> :
        u \in AnswerUrls \cup UNION {{ms[k] : k \in 1..Len(ms)} : ms \in TextMatches}}

\* The candidate after the HEAD request (lines 601-615 and 624-636): on an
\* answer, 'pdf' in the Content-Type or a url that ends in .pdf; on an
\* exception, a url that ends in .pdf.
AiAccepts(ends_pdf, head) ==
    IF head.raised THEN ends_pdf ELSE IsPdfType(head.content_type) \/ ends_pdf

\* The steps search_manual_with_openai takes on a parsed JSON answer, in
\* order: a HEAD request for primary_url if it is set and valid (line 595);
\* the TypeError of iterating alternative_urls when it is null (line 618:
\* result.get('alternative_urls', []) is None), or a HEAD request for each
\* valid alternative (line 619); then the support URL (line 641).
AltHeads[alts \in Seq(STRING), i \in Nat, validity \in SUBSET (STRING \X BOOLEAN)] ==
    IF i > Len(alts) THEN <<>>
    ELSE (IF At(validity, alts[i]) THEN <<[op |-> "head", url |-> alts[i]]>> ELSE <<>>)
            \o AltHeads[alts, i + 1, validity]

AiPlan(parsed, validity) ==
    (IF Truthy(parsed.primary_url) /\ At(validity, Val(parsed.primary_url))
     THEN <<[op |-> "head", url |-> Val(parsed.primary_url)]>> ELSE <<>>)
    \o (IF parsed.alternative_urls.key = "null" THEN <<[op |-> "type_error", url |-> ""]>>
        ELSE AltHeads[parsed.alternative_urls.urls, 1, validity]
                \o <<[op |-> "support", url |-> ""]>>)

\* The support URL step (lines 641-656, 668)
SupportStep(parsed, b, m) ==
    IF /\ Truthy(parsed.manufacturer_support_url)
       /\ ~UrlParse(Val(parsed.manufacturer_support_url)).raised
       /\ UrlParse(Val(parsed.manufacturer_support_url)).scheme \in {"http", "https"}
       /\ UrlParse(Val(parsed.manufacturer_support_url)).netloc # ""
    THEN SupportResult(Val(parsed.manufacturer_support_url), b, m)
    ELSE None

\* The fallback on a JSONDecodeError (lines 657-666): the first valid match
\* of the .pdf URL pattern in the text
TextFallback(matches, validity, b, m) ==
    IF \A k \in 1..Len(matches) : ~At(validity, matches[k]) THEN None
    ELSE Result(matches[Min({k \in 1..Len(matches) : At(validity, matches[k])})],
                DefaultTitle(b, m))

(***************************************************************************)
(* Spec: one call of search_manual_online                                  *)
(***************************************************************************)
NoUrl == [scheme |-> "", host |-> "", dir |-> "", name |-> "", query |-> ""]

Init ==
    /\ pc = "start"
    /\ urlParts = NoUrl /\ valid = FALSE /\ hrefForm = "direct" /\ resolved = None
    /\ brand \in Brands
    /\ model_number \in ModelNumbers
    /\ appliance_name \in ApplianceNames
    /\ use_openai \in BOOLEAN
    /\ answer = None /\ openai_result = None
    /\ idx = 0 /\ plan = <<>> /\ heads = <<>>
    /\ attempted = {} /\ requested = {} /\ foundBy = "none"
    /\ result = None
    /\ DocIdle

\* Lines 156-171
Call ==
    /\ pc = "start"
    /\ IF NoIdentifyingInfo(brand, model_number)
       THEN pc' = "done" /\ UNCHANGED attempted
       ELSE IF use_openai
            THEN pc' = "ai_config" /\ attempted' = attempted \cup {"ai"}
            ELSE pc' = "mfr" /\ UNCHANGED attempted
    /\ UNCHANGED <<utilVars, docVars, brand, model_number, appliance_name, use_openai, answer,
                   openai_result, idx, plan, heads, requested, foundBy, result>>

\* search_manual_with_openai, lines 539-541
AiConfig ==
    /\ pc = "ai_config"
    /\ \E api_key \in ApiKeys :
          IF ~Truthy(api_key) THEN pc' = "ai_return" ELSE pc' = "ai_call"
    /\ openai_result' = None
    /\ UNCHANGED <<utilVars, docVars, brand, model_number, appliance_name, use_openai, answer,
                   idx, plan, heads, attempted, requested, foundBy, result>>

\* Lines 543-592 and 657-672
AiCall ==
    /\ pc = "ai_call"
    /\ requested' = requested \cup {"ai"}
    /\ \E validity \in {AnswerValidity} :
       \E reply \in Replies :
          CASE reply.kind \in {"raised", "prose"} ->
                  /\ openai_result' = None
                  /\ pc' = "ai_return"
                  /\ UNCHANGED <<answer, plan>>
            [] reply.kind = "text" ->
                  /\ openai_result' = TextFallback(reply.matches, validity, brand, model_number)
                  /\ pc' = "ai_return"
                  /\ UNCHANGED <<answer, plan>>
            [] reply.kind = "json" ->
                  /\ answer' = Some(reply.json)
                  /\ plan' = AiPlan(reply.json, validity)
                  /\ pc' = "ai_steps"
                  /\ UNCHANGED openai_result
    /\ UNCHANGED <<utilVars, docVars, brand, model_number, appliance_name, use_openai,
                   idx, heads, attempted, foundBy, result>>

\* The HEAD request for primary_url or for an alternative (lines 597-615, 620-636)
AiHead ==
    /\ pc = "ai_steps"
    /\ Head(plan).op = "head"
    /\ \E ends_pdf \in {EndsWithPdf(Head(plan).url)} :
       \E head \in HeadOutcomes :
          /\ heads' = Append(heads, [url |-> Head(plan).url, raised |-> head.raised,
                                     content_type |-> head.content_type, phase |-> "ai"])
          /\ IF AiAccepts(ends_pdf, head)
             THEN /\ openai_result' = Result(Head(plan).url, DefaultTitle(brand, model_number))
                  /\ plan' = <<>>
                  /\ pc' = "ai_return"
             ELSE /\ plan' = Tail(plan)
                  /\ UNCHANGED <<openai_result, pc>>
    /\ UNCHANGED <<utilVars, docVars, brand, model_number, appliance_name, use_openai, answer,
                   idx, attempted, requested, foundBy, result>>

\* Line 618 with alternative_urls null: the TypeError reaches line 670
AiAlternativesNull ==
    /\ pc = "ai_steps"
    /\ Head(plan).op = "type_error"
    /\ openai_result' = None
    /\ plan' = <<>>
    /\ pc' = "ai_return"
    /\ UNCHANGED <<utilVars, docVars, brand, model_number, appliance_name, use_openai, answer,
                   idx, heads, attempted, requested, foundBy, result>>

\* Lines 641-656 and 668
AiSupport ==
    /\ pc = "ai_steps"
    /\ Head(plan).op = "support"
    /\ openai_result' = SupportStep(Val(answer), brand, model_number)
    /\ plan' = <<>>
    /\ pc' = "ai_return"
    /\ UNCHANGED <<utilVars, docVars, brand, model_number, appliance_name, use_openai, answer,
                   idx, heads, attempted, requested, foundBy, result>>

\* Lines 172-177
AiResult ==
    /\ pc = "ai_return"
    /\ IF ~IsNone(openai_result)
       THEN pc' = "done" /\ result' = openai_result /\ foundBy' = "ai"
       ELSE pc' = "mfr" /\ UNCHANGED <<result, foundBy>>
    /\ answer' = None
    /\ heads' = <<>>
    /\ UNCHANGED <<utilVars, docVars, brand, model_number, appliance_name, use_openai,
                   openai_result, idx, plan, attempted, requested>>

\* Lines 199-208: the manufacturer probe runs for a brand of manufacturer_sites
EnterManufacturer ==
    /\ pc = "mfr"
    /\ IF BrandLower(brand) \in DOMAIN manufacturer_sites
       THEN pc' = "mfr_get" /\ attempted' = attempted \cup {"mfr"}
       ELSE pc' = "lib_get" /\ attempted' = attempted \cup {"lib"}
    /\ idx' = 1
    /\ UNCHANGED <<utilVars, docVars, brand, model_number, appliance_name, use_openai, answer,
                   openai_result, plan, heads, requested, foundBy, result>>

\* Lines 208-232: the GET of manual_paths[idx] and the scan of its page
ManufacturerGet ==
    /\ pc = "mfr_get"
    /\ requested' = requested \cup {"mfr"}
    /\ \E base_url \in {manufacturer_sites[BrandLower(brand)]} :
       \E links \in {ManufacturerLinks(base_url, model_number)} :
       \E response \in GetOutcomes :
       \E stop \in {IF response.raised \/ response.status_code # 200 THEN 0
                    ELSE ManufacturerStop(response.page.anchors, links)} :
       \E found \in {ManufacturerPick(response.page.anchors, stop, links, base_url,
                                      brand, model_number)} :
          IF ~IsNone(found)
          THEN /\ result' = found /\ foundBy' = "mfr" /\ pc' = "done"
               /\ UNCHANGED <<idx, attempted>>
          ELSE IF idx < Len(manual_paths(base_url))
          THEN /\ idx' = idx + 1
               /\ UNCHANGED <<pc, attempted, result, foundBy>>
          ELSE /\ pc' = "lib_get" /\ idx' = 1 /\ attempted' = attempted \cup {"lib"}
               /\ UNCHANGED <<result, foundBy>>
    /\ UNCHANGED <<utilVars, docVars, brand, model_number, appliance_name, use_openai, answer,
                   openai_result, plan, heads>>

\* Lines 240-261: the GET of manual_library_sites[idx] and the scan of its page
LibraryGet ==
    /\ pc = "lib_get"
    /\ requested' = requested \cup {"lib"}
    /\ \E sites \in {manual_library_sites(brand, model_number)} :
       \E base \in {LibraryBase(sites[idx])} :
       \E links \in {LibraryLinks(base)} :
       \E response \in GetOutcomes :
       \E stop \in {IF response.raised \/ response.status_code # 200 THEN 0
                    ELSE LibraryStop(response.page.anchors, links)} :
       \E found \in {LibraryPick(response.page.anchors, stop, base, brand, model_number)} :
          IF ~IsNone(found)
          THEN /\ result' = found /\ foundBy' = "lib" /\ pc' = "done"
               /\ UNCHANGED idx
          ELSE IF idx < Len(sites)
          THEN /\ idx' = idx + 1
               /\ UNCHANGED <<pc, result, foundBy>>
          ELSE /\ pc' = "web_build" /\ idx' = 0
               /\ UNCHANGED <<result, foundBy>>
    /\ UNCHANGED <<utilVars, docVars, brand, model_number, appliance_name, use_openai, answer,
                   openai_result, plan, heads, attempted>>

\* Lines 265-274: search_urls is built outside any try
BuildSearchUrls ==
    /\ pc = "web_build"
    /\ IF SearchUrlsRaises(brand, model_number)
       THEN pc' = "raised" /\ UNCHANGED <<idx, attempted>>
       ELSE pc' = "web_get" /\ idx' = 1 /\ attempted' = attempted \cup {"web"}
    /\ UNCHANGED <<utilVars, docVars, brand, model_number, appliance_name, use_openai, answer,
                   openai_result, plan, heads, requested, foundBy, result>>

\* for search_url in search_urls (line 274), at the end of a page
NextSearchUrl(urls) ==
    IF idx < Len(urls)
    THEN pc' = "web_get" /\ idx' = idx + 1
    ELSE pc' = "done" /\ idx' = idx

\* Lines 275-296, 319-337, 358-367: the GET of search_urls[idx] and the
\* scans of its page
WebGet ==
    /\ pc = "web_get"
    /\ requested' = requested \cup {"web"}
    /\ \E urls \in {search_urls(brand, model_number, appliance_name)} :
       \E actuals \in {ActualUrls} :
       \E cleaneds \in {CleanedMatches} :
       \E response \in GetOutcomes :
       \E cands \in {IF response.raised \/ response.status_code # 200 THEN <<>>
                     ELSE WebPlan(response.page, actuals, cleaneds)} :
          IF cands = <<>>
          THEN NextSearchUrl(urls) /\ UNCHANGED plan
          ELSE plan' = cands /\ pc' = "web_head" /\ UNCHANGED idx
    /\ UNCHANGED <<utilVars, docVars, brand, model_number, appliance_name, use_openai, answer,
                   openai_result, heads, attempted, foundBy, result>>

\* Lines 298-315, 338-354, 368-381: the HEAD request for the next candidate
WebHead ==
    /\ pc = "web_head"
    /\ \E urls \in {search_urls(brand, model_number, appliance_name)} :
       \E ends_pdf \in {EndsWithPdf(Head(plan).url)} :
       \E head \in HeadOutcomes :
          IF WebAccepts(Head(plan), ends_pdf, head)
          THEN /\ heads' = <<[url |-> Head(plan).url, raised |-> head.raised,
                              content_type |-> head.content_type,
                              phase |-> Head(plan).phase]>>
               /\ result' = WebResult(Head(plan), brand, model_number)
               /\ foundBy' = "web"
               /\ pc' = "done"
               /\ plan' = <<>>
               /\ UNCHANGED idx
          ELSE /\ plan' = Tail(plan)
               /\ IF Tail(plan) = <<>> THEN NextSearchUrl(urls) ELSE UNCHANGED <<pc, idx>>
               /\ UNCHANGED <<heads, result, foundBy>>
    /\ UNCHANGED <<utilVars, docVars, brand, model_number, appliance_name, use_openai, answer,
                   openai_result, attempted, requested>>

Next ==
    \/ Call
    \/ AiConfig
    \/ AiCall
    \/ AiHead
    \/ AiAlternativesNull
    \/ AiSupport
    \/ AiResult
    \/ EnterManufacturer
    \/ ManufacturerGet
    \/ LibraryGet
    \/ BuildSearchUrls
    \/ WebGet
    \/ WebHead

Spec == Init /\ [][Next]_vars

(***************************************************************************)
(* Claims about is_valid_pdf_url (SpecValidator)                           *)
(***************************************************************************)
HasSearchMarker(u) ==
    \/ Contains(u, "google.com/search")
    \/ Contains(u, "google.com/url")
    \/ Contains(u, "/url?q=")

\* C7: is_valid_pdf_url returns false for every URL that contains
\* google.com/search, google.com/url or /url?q=, also when the URL contains
\* '.pdf' or a pdf-looking query string.
C7_SearchMarkersRejected ==
    (pc = "done" /\ HasSearchMarker(url)) => ~valid

\* A URL with a marker that passes every other check: http(s), a dotted
\* host, a path that ends in .pdf.
C7_Witness ==
    /\ pc = "done"
    /\ HasSearchMarker(url)
    /\ HasHttpPrefix(url)
    /\ EndsWith(UrlParse(url).path, ".pdf")
    /\ ~valid

\* The shape https://<host with a dot>/<path segments>/<name>.pdf
P2Shape(parts) ==
    /\ parts.scheme = "https://"
    /\ CountChar(parts.host, ".") > 0
    /\ EndsWith(parts.name, ".pdf")
    /\ parts.query = ""

\* Every character of s is a letter, a digit or one of extra
AllPlain(s, extra) ==
    \A i \in 1..Len(s) :
        IsAlpha(CharAt(s, i)) \/ IsDigit(CharAt(s, i)) \/ Contains(extra, CharAt(s, i))

\* A P2 URL written with plain characters only, and free of the words the
\* validator rejects
PlainP2(parts) ==
    /\ P2Shape(parts)
    /\ AllPlain(parts.host, "-.")
    /\ AllPlain(parts.dir \o parts.name, "-_./")
    /\ ~Contains(Lower(parts.dir \o parts.name), "redirect")
    /\ ~Contains(Lower(parts.host \o parts.dir \o parts.name), "google.com/search")
    /\ ~Contains(Lower(parts.host \o parts.dir \o parts.name), "google.com/url")

\* C8, as claimed: is_valid_pdf_url returns true for every URL of the shape
\* https://<host containing a dot>/<any path segments>/<name>.pdf.
C8_AnyP2UrlAccepted ==
    (pc = "done" /\ P2Shape(urlParts)) => valid

\* C8, amended: is_valid_pdf_url returns true for every URL of that shape
\* whose host is made of letters, digits, '-' and '.', whose path is made of
\* letters, digits, '-', '_', '.' and '/', whose path does not contain
\* 'redirect' and whose host and path do not contain google.com/search or
\* google.com/url (in any letter case).
C8_PlainP2UrlAccepted ==
    (pc = "done" /\ PlainP2(urlParts)) => valid

C8_Witness ==
    /\ pc = "done"
    /\ PlainP2(urlParts)
    /\ urlParts.dir # ""
    /\ valid

\* The host of a netloc: without the userinfo and without the port
HostOfNetloc(netloc) ==
    BeforeFirst(SubSeq(netloc, RFind(netloc, "@") + 1, Len(netloc)), ":")

HostMissingOrDotless(u) ==
    \/ UrlParse(u).raised
    \/ HostOfNetloc(UrlParse(u).netloc) = ""
    \/ CountChar(HostOfNetloc(UrlParse(u).netloc), ".") = 0

\* C9: is_valid_pdf_url rejects every input string that is empty or does not
\* start with 'http://' or 'https://' (percent-encoded strings included), and
\* every URL whose host is missing or contains no dot.
C9_NoPrefixOrNoHostRejected ==
    (pc = "done" /\ (url = "" \/ ~HasHttpPrefix(url) \/ HostMissingOrDotless(url))) => ~valid

(***************************************************************************)
(* Claims about extract_pdf_url_from_google_link (SpecResolver)            *)
(***************************************************************************)
IsQuotedRedirect == hrefForm \in {"redirect", "redirect_all"}

IsSearchUrl(u) == Contains(Lower(u), "google.com/search")

\* C10, as claimed: for every URL U of the shape of P2,
\* extract_pdf_url_from_google_link('/url?q=' + percent_encode(U) + '&sa=U...')
\* equals U.
C10_AnyP2UrlRoundTrips ==
    (pc = "done" /\ IsQuotedRedirect /\ P2Shape(urlParts)) => resolved = Some(url)

\* C10, amended: for every URL U that is_valid_pdf_url accepts,
\* extract_pdf_url_from_google_link('/url?q=' + percent_encode(U) + '&sa=U...')
\* equals U; when U is a search URL the result is none; and for every href
\* the result is none or a URL that is_valid_pdf_url accepts.
C10_ValidUrlRoundTrips ==
    pc = "done" =>
        /\ (IsQuotedRedirect /\ is_valid_pdf_url(url)) => resolved = Some(url)
        /\ (IsQuotedRedirect /\ IsSearchUrl(url)) => resolved = None
        /\ ~IsNone(resolved) => is_valid_pdf_url(Val(resolved))

C10_Witness ==
    /\ pc = "done"
    /\ hrefForm = "redirect"
    /\ is_valid_pdf_url(url)
    /\ Quote(url, "/") # url
    /\ resolved = Some(url)

(***************************************************************************)
(* Claims about search_manual_online and search_manual_with_openai (Spec)  *)
(***************************************************************************)
\* The strategies in their order, and those a call has to run: the AI lookup
\* when it is enabled, the manufacturer probe for a brand of
\* manufacturer_sites, the two others for every call
StrategyRank == [s \in {"ai", "mfr", "lib", "web"} |->
                    CASE s = "ai" -> 1 [] s = "mfr" -> 2 [] s = "lib" -> 3 [] s = "web" -> 4]

Applicable ==
    {s \in DOMAIN StrategyRank :
        /\ s = "ai" => use_openai
        /\ s = "mfr" => BrandLower(brand) \in DOMAIN manufacturer_sites}

Returned == pc \in {"done", "raised"}

\* brand or model_number is empty or absent, in the words of the precondition
EmptyOrAbsent(o) == IsNone(o) \/ Val(o) = ""

\* C1: the strategies run in the order AI lookup, manufacturer probe, manual
\* library probe, web search; a later strategy is attempted if and only if
\* every earlier one found nothing; the result is that of the first strategy
\* with a candidate, and no request is issued after it.  When the call is
\* over, the strategies attempted are the applicable ones up to the one that
\* found the result, all of them when there is no result, and a request was
\* issued only by an attempted strategy.
C1_StrategiesInOrder ==
    (Returned /\ ~(EmptyOrAbsent(brand) /\ EmptyOrAbsent(model_number))) =>
        /\ attempted = {s \in Applicable :
                            foundBy = "none" \/ StrategyRank[s] <= StrategyRank[foundBy]}
        /\ requested \subseteq attempted
        /\ (foundBy = "none") = IsNone(result)

\* C2: when brand and model_number are both empty or absent, the call
\* returns none at once, whatever appliance_name and use_openai are: no
\* strategy is attempted and no network or AI request is issued.
C2_NoInfoReturnsNoneAtOnce ==
    (EmptyOrAbsent(brand) /\ EmptyOrAbsent(model_number) /\ pc # "start") =>
        /\ pc = "done"
        /\ IsNone(result)
        /\ attempted = {}
        /\ requested = {}
        /\ foundBy = "none"

\* The call returned on an empty brand and an absent model_number, with the
\* AI lookup enabled and an appliance name given.
C2_Witness ==
    /\ pc = "done"
    /\ brand = Some("")
    /\ IsNone(model_number)
    /\ use_openai
    /\ ~IsNone(appliance_name)
    /\ IsNone(result)
    /\ requested = {}

\* C3: search_manual_online never raises to its caller, for every
\* combination of brand, model_number and appliance_name and every
\* behaviour of the network.
C3_NeverRaises == pc # "raised"

\* C4: every result carries a note or a url that is_valid_pdf_url accepts,
\* and the url of a result is never a search or redirect URL of a search
\* engine.
C4_ResultUrlValidOrNoted ==
    (pc = "done" /\ ~IsNone(result)) =>
        /\ ~IsNone(Val(result).note) \/ is_valid_pdf_url(Val(result).url)
        /\ ~HasSearchMarker(Val(result).url)

\* C5: the web search returns a candidate only if its HEAD response has a
\* Content-Type that contains 'pdf', or the HEAD request raised and the URL
\* ends in '.pdf'.
C5_WebCandidateNeedsPdfHead ==
    (pc = "done" /\ foundBy = "web") =>
        \/ ~heads[1].raised /\ IsPdfType(heads[1].content_type)
        \/ heads[1].raised /\ EndsWithPdf(heads[1].url)

\* The URLs of a parsed answer that get a HEAD request: primary_url, then
\* the entries of alternative_urls (none when the key is missing or null),
\* those is_valid_pdf_url accepts
AnswerCandidates(parsed) ==
    (IF Truthy(parsed.primary_url) THEN <<Val(parsed.primary_url)>> ELSE <<>>)
        \o parsed.alternative_urls.urls

ValidOnes[urls \in Seq(STRING)] ==
    IF urls = <<>> THEN <<>>
    ELSE (IF is_valid_pdf_url(Head(urls)) THEN <<Head(urls)>> ELSE <<>>)
            \o ValidOnes[Tail(urls)]

HeadAccepted(h) == AiAccepts(EndsWithPdf(h.url), h)

\* C6: on a parsed JSON answer primary_url is tried first, then each entry
\* of alternative_urls in order, and the first accepted one is returned; if
\* none is accepted (alternative_urls may be missing or null) the support
\* URL is returned with a note when it is an http(s) URL with a host, and
\* none otherwise.
C6_AnswerStepsInOrder ==
    (pc = "ai_return" /\ ~IsNone(answer)) =>
        IF \E k \in 1..Len(heads) : HeadAccepted(heads[k])
        THEN /\ \A k \in 1..(Len(heads) - 1) : ~HeadAccepted(heads[k])
             /\ [k \in 1..Len(heads) |-> heads[k].url]
                    = SubSeq(ValidOnes[AnswerCandidates(Val(answer))], 1, Len(heads))
             /\ openai_result = Result(heads[Len(heads)].url,
                                       DefaultTitle(brand, model_number))
        ELSE /\ [k \in 1..Len(heads) |-> heads[k].url]
                    = ValidOnes[AnswerCandidates(Val(answer))]
             /\ openai_result = SupportStep(Val(answer), brand, model_number)

(***************************************************************************)
(* download_pdf                                                            *)
(***************************************************************************)
\* What requests.get hands to download_pdf (line 401): it raises, or it
\* answers with a final status, a Content-Type header ('' when the header is
\* missing, line 405) and a body; reading the body of a streamed response
\* may raise as well.
StatusCodes == {200, 206, 304, 404, 503}
ContentTypes == {"application/pdf", "Application/PDF", "text/html", ""}
Bodies == {"%PDF-1.4 manual", "<html>%PDF</html>", "%PD", ""}
DownloadNames == {None, Some("Fridge"), Some("Sub Zero")}

GetResults ==
    {[raised |-> TRUE, status_code |-> 0, content_type |-> "", content |-> "",
      read_raises |-> FALSE]}
    \cup [raised : {FALSE}, status_code : StatusCodes, content_type : ContentTypes,
          content : Bodies, read_raises : BOOLEAN]

\* response.raise_for_status() (line 402): an HTTPError for a 4xx or 5xx status
RaisesForStatus(status_code) == status_code >= 400 /\ status_code < 600

\* A body that starts with another string than '%PDF' but holds it
HasPdfSignatureAnywhere(content) == Contains(content, "%PDF")

\* response.content[:4] == b'%PDF' (lines 408-409)
HasPdfSignature(content) == SubSeq(content, 1, Min({4, Len(content)})) = "%PDF"

\* f"{appliance_name.replace(' ', '_')}_manual.pdf" (line 413)
Filename(name) == ReplaceChar(name, " ", "_") \o "_manual.pdf"

\* download_pdf (lines 397-419): every exception ends in None, that of
\* None.replace at line 413 and that of reading the body included
download_pdf(response, name) ==
    IF response.raised \/ RaisesForStatus(response.status_code) THEN None
    ELSE IF /\ ~IsPdfType(response.content_type)
            /\ (response.read_raises \/ ~HasPdfSignature(response.content)) THEN None
    ELSE IF IsNone(name) \/ response.read_raises THEN None
    ELSE Some([name |-> Filename(Val(name)), content |-> response.content])

\* SpecDownload: download_pdf applied to one response
InitDownload ==
    /\ pc = "call"
    /\ urlParts = NoUrl /\ valid = FALSE /\ hrefForm = "direct" /\ resolved = None
    /\ SearchIdle
    /\ args \in [response : GetResults, appliance_name : DownloadNames]
    /\ ret = None /\ store = {} /\ created = <<>>

Download ==
    /\ pc = "call"
    /\ ret' = download_pdf(args.response, args.appliance_name)
    /\ pc' = "done"
    /\ UNCHANGED <<utilVars, searchVars, args, store, created>>

NextDownload == Download

SpecDownload == InitDownload /\ [][NextDownload]_vars

(***************************************************************************)
(* Claims about download_pdf (SpecDownload)                                *)
(***************************************************************************)
\* The declared type names PDF (media types do not depend on letter case)
DeclaredPdf(content_type) == Contains(Lower(content_type), "pdf")

StartsWithPdfMarker(content) == Len(content) >= 4 /\ SubSeq(content, 1, 4) = "%PDF"

\* C11: download_pdf produces a file only if the Content-Type contains 'pdf'
\* or the first 4 bytes of the body are '%PDF'; with another Content-Type
\* and another start of the body it returns none, on HTTP 200 too.
C11_FileNeedsPdfTypeOrSignature ==
    pc = "done" =>
        /\ ~IsNone(ret) =>
              /\ ~args.response.raised
              /\ \/ DeclaredPdf(args.response.content_type)
                 \/ StartsWithPdfMarker(args.response.content)
              /\ Val(ret).content = args.response.content
        /\ (/\ ~DeclaredPdf(args.response.content_type)
            /\ ~StartsWithPdfMarker(args.response.content)) => IsNone(ret)

\* HTTP 200 with an HTML type and a body that holds '%PDF' after its start
C11_Witness ==
    /\ pc = "done"
    /\ args.response.status_code = 200
    /\ ~args.response.read_raises
    /\ ~IsNone(args.appliance_name)
    /\ args.response.content_type = "text/html"
    /\ args.response.content = "<html>%PDF</html>"
    /\ IsNone(ret)

\* C12: download_pdf returns none whenever the GET raises or the final
\* status is not 2xx, whatever the Content-Type and the body are.
C12_NoFileUnlessStatus2xx ==
    (pc = "done" /\ (args.response.raised \/ args.response.status_code \notin 200..299))
        => IsNone(ret)

(***************************************************************************)
(* extract_text_from_pdf                                                   *)
(***************************************************************************)
MaxPages == 2

\* page.extract_text() of one page: it raises, or it returns None or a str
PageOutcomes ==
    {[raised |-> TRUE, text |-> None]}
    \cup [raised : {FALSE}, text : {None, Some(""), Some("A"), Some("B")}]

\* What a PDF library does with the file: seek and open raise, or the
\* pages are handed out in order
Readings == [open_raises : BOOLEAN, pages : SeqsUpTo(PageOutcomes, MaxPages)]

\* The first page whose extract_text raises; 0 when none does
FirstRaise(pages) ==
    IF \A k \in 1..Len(pages) : ~pages[k].raised THEN 0
    ELSE Min({k \in 1..Len(pages) : pages[k].raised})

\* Lines 433-436 on pages[1..n]: if page_text: text += page_text + "\n"
PlumberText(pages, n) ==
    Join([k \in 1..n |-> IF Truthy(pages[k].text) THEN Val(pages[k].text) \o "\n" ELSE ""])

\* Lines 442-443 on every page: text += page.extract_text() + "\n"
PyPdfText(pages) == Join([k \in 1..Len(pages) |-> Val(pages[k].text) \o "\n"])

\* The primary extraction raises (lines 431-436): in seek or open, or in
\* the extract_text of a page
PrimaryRaises(primary) == primary.open_raises \/ FirstRaise(primary.pages) # 0

\* text when the primary extraction raises: what the pages before gave
TextAtRaise(primary) ==
    IF primary.open_raises THEN "" ELSE PlumberText(primary.pages, FirstRaise(primary.pages) - 1)

\* The fallback extraction raises (lines 440-443): in seek or in PdfReader,
\* in the extract_text of a page, or in None + "\n" (a TypeError)
FallbackRaises(fallback) ==
    \/ fallback.open_raises
    \/ \E k \in 1..Len(fallback.pages) :
          fallback.pages[k].raised \/ IsNone(fallback.pages[k].text)

\* A failure that hands back the text gathered so far
KeepsTextOnFailure(text) == text

\* return "" (line 446): the text gathered so far is dropped
OnTotalFailure(text) == ""

\* extract_text_from_pdf (lines 427-448): the text and whether the fallback ran
extract_text_from_pdf(primary, fallback) ==
    IF ~PrimaryRaises(primary)
    THEN [text |-> PlumberText(primary.pages, Len(primary.pages)), fallback_ran |-> FALSE]
    ELSE IF FallbackRaises(fallback)
    THEN [text |-> OnTotalFailure(TextAtRaise(primary)), fallback_ran |-> TRUE]
    ELSE [text |-> TextAtRaise(primary) \o PyPdfText(fallback.pages), fallback_ran |-> TRUE]

\* SpecExtractText: extract_text_from_pdf applied to one file
InitExtractText ==
    /\ pc = "call"
    /\ urlParts = NoUrl /\ valid = FALSE /\ hrefForm = "direct" /\ resolved = None
    /\ SearchIdle
    /\ args \in [primary : Readings, fallback : Readings]
    /\ ret = None /\ store = {} /\ created = <<>>

ExtractText ==
    /\ pc = "call"
    /\ ret' = extract_text_from_pdf(args.primary, args.fallback)
    /\ pc' = "done"
    /\ UNCHANGED <<utilVars, searchVars, args, store, created>>

NextExtractText == ExtractText

SpecExtractText == InitExtractText /\ [][NextExtractText]_vars

(***************************************************************************)
(* Claims about extract_text_from_pdf (SpecExtractText)                    *)
(***************************************************************************)
SomePageRaises(reading) ==
    reading.open_raises \/ \E k \in 1..Len(reading.pages) : reading.pages[k].raised

\* C13: extract_text_from_pdf never raises; when the primary extraction
\* raises at any point the fallback is run, and when the fallback raises as
\* well the result is exactly the empty string.
C13_FallbackThenEmptyString ==
    pc = "done" =>
        /\ ret.text \in STRING
        /\ ret.fallback_ran = SomePageRaises(args.primary)
        /\ (SomePageRaises(args.primary) /\ SomePageRaises(args.fallback)) => ret.text = ""

\* The primary extraction raised on its second page after a page with text,
\* and the fallback raised on a page
C13_Witness ==
    /\ pc = "done"
    /\ ~args.primary.open_raises
    /\ Len(args.primary.pages) = 2
    /\ args.primary.pages[1] = [raised |-> FALSE, text |-> Some("A")]
    /\ args.primary.pages[2].raised
    /\ ~args.fallback.open_raises
    /\ \E k \in 1..Len(args.fallback.pages) : args.fallback.pages[k].raised
    /\ ret.text = ""

\* The per-page texts in page order, each followed by a newline; a page
\* without text contributes nothing
ConcatenationContract[pages \in Seq(PageOutcomes)] ==
    IF pages = <<>> THEN ""
    ELSE (IF IsNone(Head(pages).text) \/ Val(Head(pages).text) = "" THEN ""
          ELSE Val(Head(pages).text) \o "\n") \o ConcatenationContract[Tail(pages)]

\* C14: the primary and the fallback extractor obey the same concatenation
\* contract: the output is the per-page texts in page order, each followed
\* by a newline, and a page without text contributes nothing.
C14_SameConcatenationContract ==
    pc = "done" =>
        /\ ~SomePageRaises(args.primary)
              => ret.text = ConcatenationContract[args.primary.pages]
        /\ (SomePageRaises(args.primary) /\ ~SomePageRaises(args.fallback))
              => ret.text = ConcatenationContract[args.fallback.pages]

(***************************************************************************)
(* extract_maintenance_info                                                *)
(***************************************************************************)
\* The numbers of lines 486, 501, 503-504, 511 and 526
MinSentenceLength == 20
NameWords == 5
NameLimit == 50
NameKept == 47
DescriptionLimit == 500
TaskLimit == 10

\* \s of the patterns, str.strip() and str.split() on the texts used here
Whitespace == {" ", "\n", "\t"}

\* The members of a set of numbers in increasing order
Sorted(S) == [i \in 1..Cardinality(S) |-> CHOOSE x \in S : Cardinality({y \in S : y < x}) = i - 1]

\* The positions where [.!?]\s+ matches (line 482): a mark followed by
\* whitespace; the match runs to the end of the whitespace
SplitStarts(text) ==
    {k \in 1..(Len(text) - 1) :
        CharAt(text, k) \in {".", "!", "?"} /\ CharAt(text, k + 1) \in Whitespace}

SplitEnd(text, k) == Min({j \in (k + 1)..(Len(text) + 1) :
                            j = Len(text) + 1 \/ CharAt(text, j) \notin Whitespace}) - 1

\* re.split(r'[.!?]\s+', text)
RegexSplit[text \in STRING, starts \in Seq(Nat)] ==
    [n \in 1..(Len(starts) + 1) |->
        SubSeq(text,
               IF n = 1 THEN 1 ELSE SplitEnd(text, starts[n - 1]) + 1,
               IF n = Len(starts) + 1 THEN Len(text) ELSE starts[n] - 1)]

\* sentence.strip() (line 485)
StripWhitespace[s \in STRING] ==
    IF Outside(s, Whitespace) = {} THEN ""
    ELSE SubSeq(s, Min(Outside(s, Whitespace)), Max(Outside(s, Whitespace)))

\* sentence.split() (line 501): the runs of characters that are not whitespace
WordStarts(s) ==
    {k \in 1..Len(s) : CharAt(s, k) \notin Whitespace
                        /\ (k = 1 \/ CharAt(s, k - 1) \in Whitespace)}

WordEnd(s, k) == Min({j \in k..Len(s) : j = Len(s) \/ CharAt(s, j + 1) \in Whitespace})

WordsAt[s \in STRING, starts \in Seq(Nat)] ==
    [n \in 1..Len(starts) |-> SubSeq(s, starts[n], WordEnd(s, starts[n]))]

\* ' '.join(words) (line 502)
JoinWords(words) ==
    Join([n \in 1..Len(words) |-> IF n = 1 THEN words[n] ELSE " " \o words[n]])

\* maintenance_patterns (lines 459-466): a stem, then characters other than
\* '.', then one of six frequency words, in any letter case
PatternStems == {"clean", "maintain", "inspect", "replace", "filter", "lubricat"}
PatternWords == {"monthly", "weekly", "daily", "quarterly", "annually", "yearly"}

\* re.search finds one of the patterns in the sentence (lines 490-492);
\* low is the sentence in lower case
PatternFound[low \in STRING] ==
    \E stem \in PatternStems : \E i \in Occurrences(low, stem, 1) :
    \E word \in PatternWords : \E j \in Occurrences(low, word, i + Len(stem)) :
        ~Contains(SubSeq(low, i + Len(stem), j - 1), ".")

\* frequency_map (lines 469-479), in the order of its keys
FrequencyKeys ==
    <<"daily", "weekly", "monthly", "quarterly", "semi-annual", "semi annual",
      "annually", "yearly", "year">>

FrequencyValues ==
    <<"daily", "weekly", "monthly", "quarterly", "semi_annual", "semi_annual",
      "annual", "annual", "annual">>

\* The loop of lines 494-498 from key k on
FrequencyFrom[low \in STRING, k \in Nat] ==
    IF k > Len(FrequencyKeys) THEN "monthly"
    ELSE IF Contains(low, FrequencyKeys[k]) THEN FrequencyValues[k]
    ELSE FrequencyFrom[low, k + 1]

\* The frequency of the keyword that comes first in the sentence
FrequencyByPosition(low) ==
    IF \A k \in 1..Len(FrequencyKeys) : ~Contains(low, FrequencyKeys[k]) THEN "monthly"
    ELSE FrequencyValues[CHOOSE k \in 1..Len(FrequencyKeys) :
            /\ Contains(low, FrequencyKeys[k])
            /\ \A n \in 1..Len(FrequencyKeys) :
                  Contains(low, FrequencyKeys[n]) =>
                      \/ Find(low, FrequencyKeys[k]) < Find(low, FrequencyKeys[n])
                      \/ Find(low, FrequencyKeys[k]) = Find(low, FrequencyKeys[n]) /\ k <= n]

FrequencyOf(low) == FrequencyFrom[low, 1]

\* \w, \s and '-' of the pattern of line 507, on ASCII
IsNameChar(c) == IsAlpha(c) \/ IsDigit(c) \/ c = "_" \/ c = "-" \/ c \in Whitespace

\* re.sub(r'[^\w\s-]', '', task_name)
CleanName[name \in STRING] ==
    Join([k \in 1..Len(name) |-> IF IsNameChar(CharAt(name, k)) THEN CharAt(name, k) ELSE ""])

\* Lines 503-504
Shorten[name \in STRING] ==
    IF Len(name) > NameLimit THEN SubSeq(name, 1, NameKept) \o "..." ELSE name

\* Lines 501-510
TaskNameOf[name \in STRING] == IF name = "" THEN "Maintenance Task" ELSE name

TaskName(sentence) ==
    TaskNameOf[CleanName[Shorten[JoinWords(
        SubSeq(WordsAt[sentence, Sorted(WordStarts(sentence))],
               1, Min({NameWords, Cardinality(WordStarts(sentence))})))]]]

TaskDicts ==
    [task_name : STRING, description : STRING, frequency : STRING,
     extracted_from_manual : BOOLEAN]

\* The dictionary of lines 509-514
TaskOf[sentence \in STRING] ==
    [task_name |-> TaskName(sentence),
     description |-> SubSeq(sentence, 1, Min({DescriptionLimit, Len(sentence)})),
     frequency |-> FrequencyOf(Lower(sentence)),
     extracted_from_manual |-> TRUE]

\* The loop of lines 484-515 on one sentence: no task or one task
TasksOf[sentence \in STRING] ==
    IF Len(sentence) < MinSentenceLength THEN <<>>
    ELSE IF PatternFound[Lower(sentence)] THEN <<TaskOf[sentence]>>
    ELSE <<>>

MinedFrom[pieces \in Seq(STRING), n \in Nat] ==
    IF n > Len(pieces) THEN <<>>
    ELSE TasksOf[StripWhitespace[pieces[n]]] \o MinedFrom[pieces, n + 1]

\* tasks before the duplicates are removed (lines 456-515)
MinedTasks(text) == MinedFrom[RegexSplit[text, Sorted(SplitStarts(text))], 1]

\* The key of line 521 without .lower()
TaskKeyExact(task) == <<task.task_name, task.frequency>>

\* key = (task['task_name'].lower(), task['frequency']) (line 521)
TaskKey(task) == <<Lower(task.task_name), task.frequency>>

\* Lines 518-524
UniqueFrom[tasks \in Seq(TaskDicts), n \in Nat, seen \in SUBSET (STRING \X STRING)] ==
    IF n > Len(tasks) THEN <<>>
    ELSE IF TaskKey(tasks[n]) \in seen THEN UniqueFrom[tasks, n + 1, seen]
    ELSE <<tasks[n]>> \o UniqueFrom[tasks, n + 1, seen \cup {TaskKey(tasks[n])}]

\* The first ten of the tasks, then the duplicates removed
LimitThenUnique(tasks) ==
    UniqueFrom[SubSeq(tasks, 1, Min({TaskLimit, Len(tasks)})), 1, {}]

\* unique_tasks[:10] (lines 518-526)
UniqueThenLimit(tasks) ==
    SubSeq(UniqueFrom[tasks, 1, {}], 1, Min({TaskLimit, Len(UniqueFrom[tasks, 1, {}])}))

extract_maintenance_info(text) == UniqueThenLimit(MinedTasks(text))

\* SpecMiner: extract_maintenance_info applied to one text
MaxSentences == 2
MaxExtra == 1

SentencePool ==
    {"Clean the filter monthly",
     "CLEAN THE FILTER MONTHLY",
     "Clean the filter weekly and check it daily",
     "Inspect the air_filter (rear) yearly",
     "Wipe the door seals gently",
     "Clean it daily",
     "Stop! Replace the semi-annual filter annually",
     "Lubricate extraordinarily-long-hinge-mechanisms and compressor-mounting-brackets quarterly",
     "Clean the 3.5mm nozzle weekly"}

\* Sentences put one after the other, each closed by a full stop
JoinSentences(sentences) ==
    Join([k \in 1..Len(sentences) |->
            sentences[k] \o (IF k < Len(sentences) THEN ". " ELSE ".")])

DecimalOf(k) ==
    IF k < 10 THEN CharAt("0123456789", k + 1)
    ELSE CharAt("0123456789", (k \div 10) + 1) \o CharAt("0123456789", (k % 10) + 1)

\* n sentences on n lines that give n different tasks, or n - 1 when the
\* sentence of line again repeats the first one
ManyTasksText(n, again) ==
    Join([k \in 1..n |->
            "Clean filter unit " \o DecimalOf(IF k = again THEN 1 ELSE k) \o " monthly.\n"])

\* A sentence of more than 500 characters
LongText == "Clean " \o Join([k \in 1..100 |-> "very "]) \o "carefully monthly."

TripleText == "Clean the filter monthly. Clean the filter monthly. Clean the filter monthly."

ScenarioText == "Clean the filter monthly. Inspect coils quarterly. Replace filter annually."

Texts ==
    {JoinSentences(sentences) : sentences \in SeqsUpTo(SentencePool, MaxSentences)}
    \cup {ManyTasksText(n, again) : n \in (TaskLimit - 1)..(TaskLimit + MaxExtra), again \in {0, 3}}
    \cup {LongText, TripleText, ScenarioText}

InitMiner ==
    /\ pc = "call"
    /\ urlParts = NoUrl /\ valid = FALSE /\ hrefForm = "direct" /\ resolved = None
    /\ SearchIdle
    /\ args \in [text : Texts]
    /\ ret = None /\ store = {} /\ created = <<>>

Mine ==
    /\ pc = "call"
    /\ ret' = extract_maintenance_info(args.text)
    /\ pc' = "done"
    /\ UNCHANGED <<utilVars, searchVars, args, store, created>>

NextMiner == Mine

SpecMiner == InitMiner /\ [][NextMiner]_vars

(***************************************************************************)
(* Claims about extract_maintenance_info (SpecMiner)                       *)
(***************************************************************************)
\* The key two candidates must not share
CandidateKey(task) == <<Lower(task.task_name), task.frequency>>

\* The places of a list of candidates whose key does not occur before
FirstOccurrences(all) ==
    {i \in 1..Len(all) : \A j \in 1..(i - 1) : CandidateKey(all[j]) # CandidateKey(all[i])}

\* The first (at most ten) candidates with a new key, in their order
FirstDistinct[all \in Seq(TaskDicts)] ==
    [k \in 1..Min({10, Cardinality(FirstOccurrences(all))}) |->
        all[Sorted(FirstOccurrences(all))[k]]]

\* C15: extract_maintenance_info returns the first (at most 10)
\* deduplicated candidates in the order of their sentences in the text; the
\* duplicates are removed before the cap, so 10 candidates are returned
\* whenever 10 distinct ones exist.
C15_FirstTenDistinctInOrder ==
    pc = "done" =>
        /\ Len(ret) <= 10
        /\ ret = FirstDistinct[MinedTasks(args.text)]

\* Eleven sentences with ten distinct candidates, a repeated one among the
\* first ten
C15_Witness ==
    /\ pc = "done"
    /\ args.text = ManyTasksText(11, 3)
    /\ Len(ret) = 10
    /\ ret[10].task_name = "Clean filter unit 11 monthly"

\* Every candidate of out is the first one of all with its key
KeepsFirst[all \in Seq(TaskDicts), out \in Seq(TaskDicts)] ==
    \A k \in 1..Len(out) :
        out[k] = all[Min({i \in 1..Len(all) : CandidateKey(all[i]) = CandidateKey(out[k])})]

\* C16: no two returned candidates share the key (lowercased task_name,
\* frequency); of several sentences with one key the first is kept; three
\* identical sentences 'Clean the filter monthly.' give one candidate.
C16_OneCandidatePerKey ==
    pc = "done" =>
        /\ \A i, j \in 1..Len(ret) : i # j => CandidateKey(ret[i]) # CandidateKey(ret[j])
        /\ KeepsFirst[MinedTasks(args.text), ret]
        /\ args.text = TripleText => Len(ret) = 1

C16_Witness ==
    /\ pc = "done"
    /\ args.text = "Clean the filter monthly. CLEAN THE FILTER MONTHLY."
    /\ Len(ret) = 1
    /\ ret[1].description = "Clean the filter monthly"

PriorityList ==
    <<"daily", "weekly", "monthly", "quarterly", "semi-annual", "semi annual",
      "annually", "yearly", "year">>

CanonicalOf ==
    [key \in {PriorityList[k] : k \in 1..Len(PriorityList)} |->
        CASE key \in {"daily", "weekly", "monthly", "quarterly"} -> key
          [] key \in {"semi-annual", "semi annual"} -> "semi_annual"
          [] key \in {"annually", "yearly", "year"} -> "annual"]

CanonicalFrequencies ==
    {"daily", "weekly", "monthly", "quarterly", "semi_annual", "annual", "as_needed", "custom"}

\* The first keyword of the priority list that the lowercased sentence holds
FirstKeyword[low \in STRING] ==
    PriorityList[Min({k \in 1..Len(PriorityList) : Contains(low, PriorityList[k])})]

\* C17: the frequency of a candidate is the canonical value of the first
\* keyword of the priority list that occurs in the lowercased sentence,
\* whatever word the verb pattern met and wherever the words stand; it is
\* always a canonical value.
C17_FrequencyByPriority ==
    pc = "done" =>
        \A k \in 1..Len(ret) :
            /\ ret[k].frequency \in CanonicalFrequencies
            /\ Len(ret[k].description) < 500 =>
                  ret[k].frequency = CanonicalOf[FirstKeyword[Lower(ret[k].description)]]

\* 'weekly' comes first in the sentence and is the word the pattern meets;
\* 'daily' comes first in the priority list
C17_Witness ==
    /\ pc = "done"
    /\ args.text = "Clean the filter weekly and check it daily."
    /\ Len(ret) = 1
    /\ ret[1].frequency = "daily"

PlainNameChars ==
    UpperChars \cup LowerChars \cup DigitChars \cup {" ", "-"}

\* C18: every candidate has a non-empty task_name of at most 50 characters,
\* all alphanumeric, space or hyphen, a description of at most 500
\* characters, and extracted_from_manual = true.
C18_CandidateShape ==
    pc = "done" =>
        \A k \in 1..Len(ret) :
            /\ ret[k].task_name # ""
            /\ Len(ret[k].task_name) <= 50
            /\ \A n \in 1..Len(ret[k].task_name) : CharAt(ret[k].task_name, n) \in PlainNameChars
            /\ Len(ret[k].description) <= 500
            /\ ret[k].extracted_from_manual

(***************************************************************************)
(* extract_maintenance_with_ai                                             *)
(***************************************************************************)
\* An AI path that finds no task
NoTasksWithKey(text) == <<>>

\* The return of line 706, reached with a key when nothing raises
TasksWithKey(text) == extract_maintenance_info(text)

\* extract_maintenance_with_ai (lines 683-709): without a key (line 685),
\* with a key (line 706), and when the try block raises (line 709)
extract_maintenance_with_ai(text, api_key, try_raises) ==
    IF ~Truthy(api_key) THEN extract_maintenance_info(text)
    ELSE IF try_raises THEN extract_maintenance_info(text)
    ELSE TasksWithKey(text)

\* SpecMinerAi: extract_maintenance_with_ai applied to one text
InitMinerAi ==
    /\ pc = "call"
    /\ urlParts = NoUrl /\ valid = FALSE /\ hrefForm = "direct" /\ resolved = None
    /\ SearchIdle
    /\ args \in [text : Texts, api_key : ApiKeys, try_raises : BOOLEAN]
    /\ ret = None /\ store = {} /\ created = <<>>

MineWithAi ==
    /\ pc = "call"
    /\ ret' = extract_maintenance_with_ai(args.text, args.api_key, args.try_raises)
    /\ pc' = "done"
    /\ UNCHANGED <<utilVars, searchVars, args, store, created>>

NextMinerAi == MineWithAi

SpecMinerAi == InitMinerAi /\ [][NextMinerAi]_vars

MaxEvents == 2

Appliances == {1, 2}

\* MaintenanceTask (models.py): the fields the import reads and writes
Rows ==
    [id : Nat, appliance : Appliances, task_name : STRING, description : STRING,
     frequency : STRING, extracted_from_manual : BOOLEAN, is_active : BOOLEAN]

\* What extract_text_from_pdf gives for the manual of an appliance (line
\* 653); None stands for an appliance without manual_pdf (line 646)
ShortManual == "Clean the filter monthly. Inspect coils quarterly."

ManualA ==
    "Replace the water filter cartridge monthly. Clean the condenser coils weekly.\n"
        \o "Replace the water filter cartridge yearly. Wipe the door seals gently."

ManualB ==
    "Lubricate the door hinges quarterly with oil. Replace the water filter cartridge "
        \o "monthly. Maintain the fan yearly."

Manuals == {m \in [Appliances -> {None, Some(ShortManual), Some(ManualA), Some(ManualB)}] :
                m[2] = Some(ManualB)}

\* The task names users give in MaintenanceTaskCreateView
UserTaskNames == {"Replace the water filter cartridge", "Descale"}

UserRow(id, a, name) ==
    [id |-> id, appliance |-> a, task_name |-> name, description |-> "",
     frequency |-> "monthly", extracted_from_manual |-> FALSE, is_active |-> TRUE]

\* The rows users created before: none, one, or two of the same name
InitialStores ==
    {{},
     {UserRow(1, 1, "Replace the water filter cartridge")},
     {UserRow(1, 1, "Replace the water filter cartridge"),
      UserRow(2, 1, "Replace the water filter cartridge")}}

NextId(rows) == IF rows = {} THEN 1 ELSE Max({r.id : r \in rows}) + 1

\* A lookup that tells rows of one name apart by their frequency
ExistingWithFrequency(rows, a, task) ==
    {r \in rows : r.appliance = a /\ r.task_name = task.task_name
                    /\ r.frequency = task.frequency}

\* The lookup of get_or_create (lines 670-672): appliance and task_name
Existing(rows, a, task) ==
    {r \in rows : r.appliance = a /\ r.task_name = task.task_name}

\* The row get_or_create creates (lines 671-678)
ImportedRow(id, a, task) ==
    [id |-> id, appliance |-> a, task_name |-> task.task_name,
     description |-> task.description, frequency |-> task.frequency,
     extracted_from_manual |-> TRUE, is_active |-> TRUE]

\* The loop of lines 669-681 from task n on: the rows and the names created
\* so far; MultipleObjectsReturned ends the loop (line 684)
ImportFrom[tasks \in Seq(TaskDicts), n \in Nat, a \in Appliances, rows \in SUBSET Rows, made \in Seq(STRING)] ==
    IF n > Len(tasks) THEN [rows |-> rows, made |-> made, outcome |-> "success"]
    ELSE IF Cardinality(Existing(rows, a, tasks[n])) > 1
    THEN [rows |-> rows, made |-> made, outcome |-> "error"]
    ELSE IF Cardinality(Existing(rows, a, tasks[n])) = 1
    THEN ImportFrom[tasks, n + 1, a, rows, made]
    ELSE ImportFrom[tasks, n + 1, a, rows \cup {ImportedRow(NextId(rows), a, tasks[n])},
                    Append(made, tasks[n].task_name)]

\* extract_maintenance (lines 646-687) for appliance a with the text of its
\* manual
ImportManual(manual, api_key, a, rows) ==
    IF IsNone(manual) THEN [rows |-> rows, made |-> <<>>, outcome |-> "no_manual"]
    ELSE IF Len(Val(manual)) < 100 THEN [rows |-> rows, made |-> <<>>, outcome |-> "no_text"]
    ELSE ImportFrom[extract_maintenance_with_ai(Val(manual), api_key, FALSE), 1, a, rows, <<>>]

Event(op, a, before, run) ==
    [op |-> op, appliance |-> a, before |-> before, made |-> run.made, outcome |-> run.outcome]

NamesOf(rows, a) == {r.task_name : r \in {x \in rows : x.appliance = a}}

\* SpecImport: requests to extract_maintenance and to the task views
InitImport ==
    /\ pc = "idle"
    /\ urlParts = NoUrl /\ valid = FALSE /\ hrefForm = "direct" /\ resolved = None
    /\ SearchIdle
    /\ args \in [manual : Manuals]
    /\ ret = None
    /\ store \in InitialStores
    /\ created = <<>>

ExtractMaintenance ==
    /\ pc = "idle"
    /\ Len(created) < MaxEvents
    /\ \E a \in Appliances : \E api_key \in ApiKeys :
       \E run \in {ImportManual(args.manual[a], api_key, a, store)} :
          /\ store' = run.rows
          /\ created' = Append(created, Event("run", a, NamesOf(store, a), run))
    /\ UNCHANGED <<pc, utilVars, searchVars, args, ret>>

\* MaintenanceTaskCreateView (views.py lines 722-739)
CreateTask ==
    /\ pc = "idle"
    /\ Len(created) < MaxEvents
    /\ \E a \in Appliances : \E name \in UserTaskNames :
          /\ store' = store \cup {UserRow(NextId(store), a, name)}
          /\ created' = Append(created, Event("create", a, {}, [made |-> <<>>, outcome |-> "success"]))
    /\ UNCHANGED <<pc, utilVars, searchVars, args, ret>>

\* MaintenanceTaskDeleteView (views.py lines 773-789)
DeleteTask ==
    /\ pc = "idle"
    /\ Len(created) < MaxEvents
    /\ \E row \in store :
          /\ store' = store \ {row}
          /\ created' = Append(created, Event("delete", row.appliance, {}, [made |-> <<>>, outcome |-> "success"]))
    /\ UNCHANGED <<pc, utilVars, searchVars, args, ret>>

NextImport == ExtractMaintenance \/ CreateTask \/ DeleteTask

SpecImport == InitImport /\ [][NextImport]_vars

\* C20: task import is idempotent: the second of two runs of
\* extract_maintenance in succession for one appliance and one manual creates
\* no record, and a candidate whose task_name exists for the appliance never
\* creates a record.
C20_ImportIdempotent ==
    \A k \in 1..Len(created) :
        created[k].op = "run" =>
            /\ (/\ k > 1
                /\ created[k - 1].op = "run"
                /\ created[k - 1].appliance = created[k].appliance) => created[k].made = <<>>
            /\ \A n \in 1..Len(created[k].made) :
                  /\ created[k].made[n] \notin created[k].before
                  /\ \A j \in 1..(n - 1) : created[k].made[j] # created[k].made[n]

\* Two runs in succession for appliance 1: the first one creates records
\* next to a row the user had created, the second one creates none
C20_Witness ==
    /\ Len(created) = 2
    /\ created[1].op = "run" /\ created[2].op = "run"
    /\ created[1].appliance = 1 /\ created[2].appliance = 1
    /\ created[1].before = {"Replace the water filter cartridge"}
    /\ created[1].made = <<"Clean the condenser coils weekly">>
    /\ created[1].outcome = "success"
    /\ created[2].made = <<>>

\* The candidates extract_maintenance mines for appliance a (lines 646-664)
CandidatesFor(a) ==
    IF IsNone(args.manual[a]) \/ Len(Val(args.manual[a])) < 100 THEN <<>>
    ELSE extract_maintenance_info(Val(args.manual[a]))

PairsOf(rows, a) == {TaskKey(r) : r \in {x \in rows : x.appliance = a}}

IsRunStep == Len(created') = Len(created) + 1 /\ created'[Len(created')].op = "run"

\* C21: stored tasks are keyed by the appliance and the pair (lowercased
\* task_name, frequency): a run of extract_maintenance stores every mined
\* candidate whose pair is not yet known for the appliance, also one that
\* shares its task_name with an existing record but differs in frequency,
\* and a candidate whose pair is known creates no record.
C21_StoredByNameAndFrequency ==
    [][IsRunStep =>
         \E a \in {created'[Len(created')].appliance} :
         \E cands \in {CandidatesFor(a)} :
            /\ \A n \in 1..Len(cands) : TaskKey(cands[n]) \in PairsOf(store', a)
            /\ \A r \in store' \ store :
                  /\ TaskKey(r) \notin PairsOf(store, a)
                  /\ \A other \in store' \ store :
                        (other.appliance = r.appliance /\ TaskKey(other) = TaskKey(r)) => other = r]_vars

(***************************************************************************)
(* extract_text_from_image (utils.py lines 712-756)                        *)
(***************************************************************************)
\* reader.readtext(img_array): the texts result[1] of the results, or an
\* exception of easyocr.Reader, readtext or the numpy import
EasyResults == {<<>>, <<"">>, <<"", "">>, <<"SAMSUNG">>, <<"SAMSUNG", "RF28">>}

EasyOutcomes ==
    [raised : {TRUE}, results : {<<>>}] \cup [raised : {FALSE}, results : EasyResults]

\* pytesseract.image_to_string: a text or an exception
TesseractOutcomes ==
    [raised : {TRUE}, text : {""}]
        \cup [raised : {FALSE}, text : {"", " \n", " Model 5 \n", "Fallback text from Tesseract"}]

\* An image file and what the engines make of it: Image.open raises or not,
\* EASYOCR_AVAILABLE, PYTESSERACT_AVAILABLE, the call with lang='eng' and
\* the call with the default language
Images ==
    [decodes : BOOLEAN, easyocr_available : BOOLEAN, easyocr : EasyOutcomes,
     pytesseract_available : BOOLEAN, tesseract_eng : TesseractOutcomes,
     tesseract_default : TesseractOutcomes]

\* ' '.join([result[1] for result in results]) (line 731)
EasyText(image) ==
    IF image.easyocr_available /\ ~image.easyocr.raised
    THEN JoinWords(image.easyocr.results) ELSE ""

\* An engine whose text is handed back whatever it is
EasyReturnsAlways(text) == TRUE

\* if text: return text (lines 732-733)
EasyReturns(text) == text # ""

extract_text_from_image(image) ==
    IF ~image.decodes
    THEN [text |-> "", easyocr_ran |-> FALSE, tesseract_calls |-> 0]
    ELSE IF image.easyocr_available /\ ~image.easyocr.raised /\ EasyReturns(EasyText(image))
    THEN [text |-> EasyText(image), easyocr_ran |-> TRUE, tesseract_calls |-> 0]
    ELSE IF ~image.pytesseract_available
    THEN [text |-> "", easyocr_ran |-> image.easyocr_available, tesseract_calls |-> 0]
    ELSE IF ~image.tesseract_eng.raised
    THEN [text |-> StripWhitespace[image.tesseract_eng.text],
          easyocr_ran |-> image.easyocr_available, tesseract_calls |-> 1]
    ELSE IF ~image.tesseract_default.raised
    THEN [text |-> StripWhitespace[image.tesseract_default.text],
          easyocr_ran |-> image.easyocr_available, tesseract_calls |-> 2]
    ELSE [text |-> "", easyocr_ran |-> image.easyocr_available, tesseract_calls |-> 2]

\* SpecImage: extract_text_from_image applied to one image
InitImage ==
    /\ pc = "call"
    /\ urlParts = NoUrl /\ valid = FALSE /\ hrefForm = "direct" /\ resolved = None
    /\ SearchIdle
    /\ args \in [image : Images]
    /\ ret = None /\ store = {} /\ created = <<>>

ExtractImage ==
    /\ pc = "call"
    /\ ret' = extract_text_from_image(args.image)
    /\ pc' = "done"
    /\ UNCHANGED <<utilVars, searchVars, args, store, created>>

NextImage == ExtractImage

SpecImage == InitImage /\ [][NextImage]_vars

\* The primary engine ran and gave a text that is not empty
PrimaryGaveText(image) ==
    /\ image.decodes /\ image.easyocr_available /\ ~image.easyocr.raised
    /\ JoinWords(image.easyocr.results) # ""

\* What the secondary engine gives, trimmed: the call with lang='eng', after
\* its failure the call with the default language, "" when both fail
SecondaryTrimmed(image) ==
    IF ~image.tesseract_eng.raised THEN StripWhitespace[image.tesseract_eng.text]
    ELSE IF ~image.tesseract_default.raised THEN StripWhitespace[image.tesseract_default.text]
    ELSE ""

\* C22: extract_text_from_image is a strict fallback chain that never
\* raises: the primary engine's joined text is returned at once when it is
\* not empty; the secondary engine (when installed) is invoked if and only
\* if the image was decoded and the primary is unavailable, raised or gave
\* empty text, and its trimmed output is returned; an image that cannot be
\* decoded, no engine available, or every engine failing gives "".
C22_StrictFallbackChain ==
    pc = "done" =>
        /\ ret.text \in STRING
        /\ PrimaryGaveText(args.image) =>
              /\ ret.text = JoinWords(args.image.easyocr.results)
              /\ ret.tesseract_calls = 0
        /\ ret.tesseract_calls > 0 <=>
              /\ args.image.decodes
              /\ args.image.pytesseract_available
              /\ ~PrimaryGaveText(args.image)
        /\ ret.tesseract_calls > 0 => ret.text = SecondaryTrimmed(args.image)
        /\ ~args.image.decodes =>
              ret.text = "" /\ ~ret.easyocr_ran /\ ret.tesseract_calls = 0
        /\ (~args.image.easyocr_available /\ ~args.image.pytesseract_available) => ret.text = ""
        /\ (/\ ~PrimaryGaveText(args.image)
            /\ \/ ~args.image.pytesseract_available
               \/ args.image.tesseract_eng.raised /\ args.image.tesseract_default.raised)
              => ret.text = ""

\* The primary engine raised and the secondary engine's text comes back
\* trimmed
C22_Witness ==
    /\ pc = "done"
    /\ args.image.decodes /\ args.image.easyocr_available /\ args.image.easyocr.raised
    /\ args.image.pytesseract_available
    /\ args.image.tesseract_eng = [raised |-> FALSE, text |-> " Model 5 \n"]
    /\ ret = [text |-> "Model 5", easyocr_ran |-> TRUE, tesseract_calls |-> 1]

(***************************************************************************)
(* parse_appliance_info_from_text (utils.py lines 759-851)                 *)
(***************************************************************************)
UpperOf == [c \in LowerChars |-> CharOfCode(CodeOf[c] - 32)]

\* str.upper
UpperStr[s \in STRING] ==
    Join([i \in 1..Len(s) |->
            IF CharAt(s, i) \in LowerChars THEN UpperOf[CharAt(s, i)] ELSE CharAt(s, i)])

\* str.title: a letter after a letter is lowered, any other letter raised
TitleStr[s \in STRING] ==
    Join([i \in 1..Len(s) |->
            IF i > 1 /\ IsAlpha(CharAt(s, i - 1))
            THEN (IF CharAt(s, i) \in UpperChars THEN LowerOf[CharAt(s, i)] ELSE CharAt(s, i))
            ELSE (IF CharAt(s, i) \in LowerChars THEN UpperOf[CharAt(s, i)] ELSE CharAt(s, i))])

\* ' '.join(text.split()).upper() (lines 772-773)
text_upper(text) == UpperStr[JoinWords(WordsAt[text, Sorted(WordStarts(text))])]

\* Lines 782-787
brands ==
    <<"SAMSUNG", "LG", "WHIRLPOOL", "MAYTAG", "KITCHENAID", "BOSCH",
      "GE", "GENERAL ELECTRIC", "FRIGIDAIRE", "ELECTROLUX", "KENMORE",
      "PANASONIC", "SHARP", "TOSHIBA", "HITACHI", "DAIKIN", "CARRIER",
      "TRANE", "LENNOX", "RHEEM", "A.O. SMITH", "BRADFORD WHITE">>

\* brand in text_upper (line 791)
BrandIn(upper, name) == Contains(upper, name)

\* Lines 790-793: the first brand of the list found in the text, title-cased
FindBrand(upper) ==
    IF \E n \in 1..Len(brands) : BrandIn(upper, brands[n])
    THEN Some(TitleStr[brands[Min({n \in 1..Len(brands) : BrandIn(upper, brands[n])})]])
    ELSE None

\* The characters of [:\s#], [A-Z0-9\-], [A-Z0-9] and \w
SepChars == {":", "#"} \cup Whitespace
TokenChars == UpperChars \cup DigitChars \cup {"-"}
AlnumChars == UpperChars \cup DigitChars
WordChars == UpperChars \cup LowerChars \cup DigitChars \cup {"_"}

\* The last position of the longest run of characters of chars that starts
\* at position k; k - 1 when there is none
RunEnd(s, k, chars) ==
    Min({j \in (k - 1)..Len(s) : j = Len(s) \/ CharAt(s, j + 1) \notin chars})

\* A label written as words with \s+ between them, matched at position k:
\* the position of its last character, 0 without a match
LabelEnd[s \in STRING, k \in Nat, words \in Seq(STRING)] ==
    IF k + Len(words[1]) - 1 > Len(s) \/ SubSeq(s, k, k + Len(words[1]) - 1) # words[1] THEN 0
    ELSE IF Len(words) = 1 THEN k + Len(words[1]) - 1
    ELSE IF RunEnd(s, k + Len(words[1]), Whitespace) < k + Len(words[1]) THEN 0
    ELSE LabelEnd[s, RunEnd(s, k + Len(words[1]), Whitespace) + 1, Tail(words)]

\* Where the token of LABEL[:\s#]+([A-Z0-9\-]{lo,hi}) starts for a match at
\* position k; 0 without a match
TokenStart(s, k, words, lo) ==
    IF LabelEnd[s, k, words] = 0 THEN 0
    ELSE IF RunEnd(s, LabelEnd[s, k, words] + 1, SepChars) = LabelEnd[s, k, words] THEN 0
    ELSE IF RunEnd(s, RunEnd(s, LabelEnd[s, k, words] + 1, SepChars) + 1, TokenChars)
               - RunEnd(s, LabelEnd[s, k, words] + 1, SepChars) < lo THEN 0
    ELSE RunEnd(s, LabelEnd[s, k, words] + 1, SepChars) + 1

\* re.search(pattern, text_upper, re.IGNORECASE).group(1) for the leftmost
\* match, or None
LabelSearch(s, words, lo, hi) ==
    IF \A k \in 1..Len(s) : TokenStart(s, k, words, lo) = 0 THEN None
    ELSE \* the leftmost match
         LET k == Min({j \in 1..Len(s) : TokenStart(s, j, words, lo) # 0})
             from == TokenStart(s, k, words, lo)
         IN  Some(SubSeq(s, from, Min({RunEnd(s, from, TokenChars), from + hi - 1})))

\* Lines 797-802
model_patterns == <<<<"MODEL">>, <<"MODEL", "NO">>, <<"MODEL", "NUMBER">>, <<"MOD">>>>

\* Lines 815-821
serial_patterns ==
    <<<<"SN">>, <<"S/N">>, <<"SERIAL", "NO">>, <<"SERIAL">>, <<"SERIAL", "NUMBER">>>>

ModelMinLength == 3
ModelMaxLength == 30
SerialMinLength == 5
SerialMaxLength == 50

\* Line 809
ModelAccepted(found) ==
    ~IsNone(found) /\ Len(Val(found)) >= ModelMinLength /\ Len(Val(found)) <= ModelMaxLength

\* Lines 804-811: the first pattern whose leftmost match is accepted
ModelByLabel(upper) ==
    LET found == [n \in 1..Len(model_patterns) |->
                     LabelSearch(upper, model_patterns[n], 1, Len(upper))]
    IN  IF \E n \in 1..Len(found) : ModelAccepted(found[n])
        THEN found[Min({n \in 1..Len(found) : ModelAccepted(found[n])})]
        ELSE None

\* Line 828
SerialAccepted(found) ==
    /\ ~IsNone(found)
    /\ Val(found) \notin {"NUMBER", "NO", "NUM"}
    /\ Len(Val(found)) >= SerialMinLength

\* Lines 823-830
SerialByLabel(upper) ==
    LET found == [n \in 1..Len(serial_patterns) |->
                     LabelSearch(upper, serial_patterns[n], SerialMinLength, SerialMaxLength)]
    IN  IF \E n \in 1..Len(found) : SerialAccepted(found[n])
        THEN found[Min({n \in 1..Len(found) : SerialAccepted(found[n])})]
        ELSE None

\* \b between positions k and k + 1 (k = 0: the start of the string)
Boundary(s, k) ==
    (k >= 1 /\ CharAt(s, k) \in WordChars) # (k < Len(s) /\ CharAt(s, k + 1) \in WordChars)

\* \b([A-Z]{2,4}[-]?[0-9]{3,6}[A-Z0-9\-]*)\b matched at position k: the
\* position of the last character of the longest match, 0 without a match
CodeEnd(s, k) ==
    LET letters == RunEnd(s, k, UpperChars)
        digits == IF letters < Len(s) /\ CharAt(s, letters + 1) = "-" THEN letters + 2
                  ELSE letters + 1
        ends == {e \in (digits + 2)..RunEnd(s, digits, TokenChars) : Boundary(s, e)}
    IN  IF /\ Boundary(s, k - 1)
           /\ letters - k + 1 \in 2..4
           /\ RunEnd(s, digits, DigitChars) - digits + 1 >= 3
           /\ ends # {}
        THEN Max(ends) ELSE 0

CodeMinLength == 5
CodeMaxLength == 20

\* Lines 833-839: the leftmost letters-then-digits code, kept when it has
\* 5 to 20 characters
ModelByCode(upper) ==
    IF \A k \in 1..Len(upper) : CodeEnd(upper, k) = 0 THEN None
    ELSE LET k == Min({j \in 1..Len(upper) : CodeEnd(upper, j) # 0})
             candidate == SubSeq(upper, k, CodeEnd(upper, k))
         IN  IF CodeMinLength <= Len(candidate) /\ Len(candidate) <= CodeMaxLength
             THEN Some(candidate) ELSE None

RunMinLength == 8
RunMaxLength == 20

\* \b([A-Z0-9]{8,20})\b matches at position k
RunAt(s, k) ==
    /\ Boundary(s, k - 1)
    /\ RunEnd(s, k, AlnumChars) - k + 1 \in RunMinLength..RunMaxLength
    /\ Boundary(s, RunEnd(s, k, AlnumChars))

\* Lines 842-849: the first run, dropped when it is the model number
FirstRunNotModel(upper, model) ==
    IF \A k \in 1..Len(upper) : ~RunAt(upper, k) THEN None
    ELSE LET k == Min({j \in 1..Len(upper) : RunAt(upper, j)})
             candidate == SubSeq(upper, k, RunEnd(upper, k, AlnumChars))
         IN  IF Some(candidate) # model THEN Some(candidate) ELSE None

ParseUpper(upper) ==
    LET by_label == ModelByLabel(upper)
        model == IF IsNone(by_label) THEN ModelByCode(upper) ELSE by_label
        serial == SerialByLabel(upper)
    IN  [brand |-> FindBrand(upper),
         model_number |-> model,
         serial_number |-> IF IsNone(serial) THEN FirstRunNotModel(upper, model) ELSE serial]

parse_appliance_info_from_text(text) ==
    IF text = "" THEN [brand |-> None, model_number |-> None, serial_number |-> None]
    ELSE ParseUpper(text_upper(text))

\* The texts of appliance labels: words before the label, a model label
\* with its separator (or none), a token, words after it
LabelPrefixes == {"", "Samsung ", "a large door ", "SN: 12345678 "}
ModelLabels == {"Model", "Model No", "Model Number", "Mod"}
LabelSeparators == {":", "#", " ", ": "}
LabelTokens == {"WM3500CW", "WF45T6000AW", "X-9", "AB", "random",
                "A1B2C3D4E5F6G7H8I9J0K1L2M3N4O5P"}
LabelSuffixes == {"", " 12345678", " Serial Number: AB12345"}

LabelTexts ==
    [prefix : LabelPrefixes, label : {""}, sep : {""}, token : LabelTokens,
     suffix : LabelSuffixes]
        \cup [prefix : LabelPrefixes, label : ModelLabels, sep : LabelSeparators,
              token : LabelTokens, suffix : LabelSuffixes]

TextOf(parts) == parts.prefix \o parts.label \o parts.sep \o parts.token \o parts.suffix

\* SpecParser: parse_appliance_info_from_text applied to one text
InitParser ==
    /\ pc = "call"
    /\ urlParts = NoUrl /\ valid = FALSE /\ hrefForm = "direct" /\ resolved = None
    /\ SearchIdle
    /\ args \in LabelTexts
    /\ ret = None /\ store = {} /\ created = <<>>

Parse ==
    /\ pc = "call"
    /\ ret' = parse_appliance_info_from_text(TextOf(args))
    /\ pc' = "done"
    /\ UNCHANGED <<utilVars, searchVars, args, store, created>>

NextParser == Parse

SpecParser == InitParser /\ [][NextParser]_vars

(***************************************************************************)
(* Claims about parse_appliance_info_from_text (SpecParser)                *)
(***************************************************************************)
\* A brand name counts only as a word of its own
BrandAsWord(upper, name) ==
    \E k \in Occurrences(upper, name, 1) :
        /\ k = 1 \/ CharAt(upper, k - 1) \notin AlnumChars
        /\ k + Len(name) - 1 = Len(upper) \/ CharAt(upper, k + Len(name)) \notin AlnumChars

\* No model label followed by a token, and no letters-then-digits code
NoModelInfo(upper) ==
    /\ \A n \in 1..Len(model_patterns) : IsNone(LabelSearch(upper, model_patterns[n], 1, Len(upper)))
    /\ \A k \in 1..Len(upper) : CodeEnd(upper, k) = 0

\* C23: parse_appliance_info_from_text makes no match out of common words:
\* for a text in which no brand name stands as a word of its own, no model
\* label is followed by a token and no letters-then-digits code occurs, it
\* returns brand = none and model_number = none.
C23_NoSpuriousMatches ==
    pc = "done" =>
        \E upper \in {text_upper(TextOf(args))} :
            ((\A n \in 1..Len(brands) : ~BrandAsWord(upper, brands[n])) /\ NoModelInfo(upper))
                => (IsNone(ret.brand) /\ IsNone(ret.model_number))

\* The token is made of letters, digits and hyphens and has 3 to 30
\* characters
IsModelToken(token) ==
    /\ Len(token) >= ModelMinLength /\ Len(token) <= ModelMaxLength
    /\ \A k \in 1..Len(token) : CharAt(UpperStr[token], k) \in TokenChars

\* C24: for each of the label forms MODEL, MODEL NO, MODEL NUMBER and MOD,
\* followed by a separator (':', '#' or whitespace) and a token T of
\* letters, digits and hyphens of 3 to 30 characters,
\* parse_appliance_info_from_text returns model_number = T in upper case,
\* never the label word itself.
C24_ModelIsTokenAfterLabel ==
    (pc = "done" /\ args.label # "" /\ IsModelToken(args.token))
        => ret.model_number = Some(UpperStr[args.token])

\* The runs from the first one on, the ones equal to the model passed over
NextRunNotModel(upper, model) ==
    LET runs == {k \in 1..Len(upper) :
                    RunAt(upper, k) /\ Some(SubSeq(upper, k, RunEnd(upper, k, AlnumChars))) # model}
    IN  IF runs = {} THEN None
        ELSE Some(SubSeq(upper, Min(runs), RunEnd(upper, Min(runs), AlnumChars)))

\* C25: when no serial label pattern gives a serial number,
\* parse_appliance_info_from_text returns as serial_number the first bare
\* run of 8 to 20 letters and digits that is not the model number found
\* before (a run equal to the model number is passed over and the next one
\* taken), and none only when there is no such run.
C25_SerialIsFirstRunNotModel ==
    pc = "done" =>
        \E upper \in {text_upper(TextOf(args))} :
            IsNone(SerialByLabel(upper))
                => ret.serial_number = NextRunNotModel(upper, ret.model_number)

(***************************************************************************)
(* MaintenanceTask scheduling: calculate_next_due, save (models.py lines   *)
(* 228-279), the task views and mark_maintenance_complete                  *)
(***************************************************************************)
\* datetime.date: a date is its day number, day 1 being 2024-01-01
FirstYear == 2024
LastYear == 2027

IsLeap(y) == y % 4 = 0 /\ (y % 100 # 0 \/ y % 400 = 0)

DaysInMonth(y, mo) ==
    IF mo = 2 THEN (IF IsLeap(y) THEN 29 ELSE 28)
    ELSE IF mo \in {4, 6, 9, 11} THEN 30 ELSE 31

DaysBeforeYear[y \in Nat] ==
    IF y <= FirstYear THEN 0
    ELSE DaysBeforeYear[y - 1] + (IF IsLeap(y - 1) THEN 366 ELSE 365)

DaysBeforeMonth[y \in Nat, mo \in Nat] ==
    IF mo <= 1 THEN 0 ELSE DaysBeforeMonth[y, mo - 1] + DaysInMonth(y, mo - 1)

\* date(y, mo, d)
Date(y, mo, d) == DaysBeforeYear[y] + DaysBeforeMonth[y, mo] + d

YearOf(n) == CHOOSE y \in FirstYear..LastYear : DaysBeforeYear[y] < n /\ n <= DaysBeforeYear[y + 1]

MonthOf(n) ==
    CHOOSE mo \in 1..12 :
        /\ DaysBeforeMonth[YearOf(n), mo] < n - DaysBeforeYear[YearOf(n)]
        /\ n - DaysBeforeYear[YearOf(n)] <= DaysBeforeMonth[YearOf(n), mo] + DaysInMonth(YearOf(n), mo)

DayOf(n) == n - DaysBeforeYear[YearOf(n)] - DaysBeforeMonth[YearOf(n), MonthOf(n)]

\* last + relativedelta(months=k): the same day k months on, or the last
\* day of that month when the month is shorter
AddMonths(n, k) ==
    LET months == (YearOf(n) * 12 + (MonthOf(n) - 1)) + k
        y == months \div 12
        mo == (months % 12) + 1
    IN  Date(y, mo, IF DayOf(n) > DaysInMonth(y, mo) THEN DaysInMonth(y, mo) ELSE DayOf(n))

\* FREQUENCY_CHOICES (lines 180-189)
FREQUENCY_CHOICES ==
    {"daily", "weekly", "monthly", "quarterly", "semi_annual", "annual", "as_needed", "custom"}

\* A schedule that gives every frequency it does not know a due date one
\* day on
NextDueNeverNone(frequency, interval_days, last_performed, dateutil) ==
    IF IsNone(last_performed) THEN None
    ELSE Some(Val(last_performed) + 1)

\* calculate_next_due (lines 228-274); dateutil tells whether
\* dateutil.relativedelta can be imported
NextDue(frequency, interval_days, last_performed, dateutil) ==
    IF IsNone(last_performed) THEN None
    ELSE IF frequency = "daily" THEN Some(Val(last_performed) + 1)
    ELSE IF frequency = "weekly" THEN Some(Val(last_performed) + 7)
    ELSE IF frequency = "monthly"
    THEN Some(IF dateutil THEN AddMonths(Val(last_performed), 1) ELSE Val(last_performed) + 30)
    ELSE IF frequency = "quarterly"
    THEN Some(IF dateutil THEN AddMonths(Val(last_performed), 3) ELSE Val(last_performed) + 90)
    ELSE IF frequency = "semi_annual"
    THEN Some(IF dateutil THEN AddMonths(Val(last_performed), 6) ELSE Val(last_performed) + 180)
    ELSE IF frequency = "annual"
    THEN Some(IF dateutil THEN AddMonths(Val(last_performed), 12) ELSE Val(last_performed) + 365)
    ELSE IF frequency = "custom" /\ ~IsNone(interval_days) /\ Val(interval_days) # 0
    THEN Some(Val(last_performed) + Val(interval_days))
    ELSE None

calculate_next_due(task, dateutil) ==
    NextDue(task.frequency, task.interval_days, task.last_performed, dateutil)

\* MaintenanceTask.save (lines 276-279)
save(task, dateutil) ==
    IF ~IsNone(task.last_performed) /\ IsNone(task.next_due)
    THEN [task EXCEPT !.next_due = calculate_next_due(task, dateutil)]
    ELSE task

\* What MaintenanceTaskForm posts for the scheduling fields
LastPerformedChoices == {None, Some(Date(2024, 1, 31))}
NextDueChoices == {None, Some(Date(2024, 3, 1))}
IntervalChoices == {None, Some(45), Some(-5)}

TaskForms ==
    [frequency : FREQUENCY_CHOICES, interval_days : IntervalChoices,
     last_performed : LastPerformedChoices, next_due : NextDueChoices]

\* The update form shows the stored next_due, which is posted back unless
\* the user changes it
UpdateForms(task) ==
    [frequency : FREQUENCY_CHOICES, interval_days : IntervalChoices,
     last_performed : LastPerformedChoices, next_due : NextDueChoices \cup {task.next_due}]

\* date.today()
Todays == {Date(2024, 2, 29), Date(2024, 12, 31)}

\* form.save() of a ModelForm: the posted fields are put on the instance,
\* then the instance is saved
FormSave(form, dateutil) == save(form, dateutil)

\* MaintenanceTaskUpdateView.form_valid (lines 760-770) for the stored task
UpdatedTask(task, form, dateutil) ==
    IF form.last_performed # task.last_performed
    THEN save(save(IF ~IsNone(form.last_performed)
                   THEN [form EXCEPT !.next_due = calculate_next_due(form, dateutil)]
                   ELSE form, dateutil), dateutil)
    ELSE save(form, dateutil)

\* mark_maintenance_complete (lines 792-800)
CompletedTask(task, today, dateutil) ==
    save([task EXCEPT !.last_performed = Some(today),
                      !.next_due = calculate_next_due([task EXCEPT !.last_performed = Some(today)],
                                                      dateutil)],
         dateutil)

\* SpecTask: the requests that write one maintenance task. store holds the
\* task, ret the request served last
InitTask ==
    /\ pc = "idle"
    /\ urlParts = NoUrl /\ valid = FALSE /\ hrefForm = "direct" /\ resolved = None
    /\ SearchIdle
    /\ args \in [today : Todays, dateutil : BOOLEAN]
    /\ ret = None
    /\ store = {}
    /\ created = <<>>

TaskCreate ==
    /\ pc = "idle"
    /\ store = {}
    /\ \E form \in TaskForms : store' = {FormSave(form, args.dateutil)}
    /\ ret' = Some("create")
    /\ UNCHANGED <<pc, utilVars, searchVars, args, created>>

TaskUpdate ==
    /\ pc = "idle"
    /\ \E task \in store : \E form \in UpdateForms(task) :
          store' = {UpdatedTask(task, form, args.dateutil)}
    /\ ret' = Some("update")
    /\ UNCHANGED <<pc, utilVars, searchVars, args, created>>

MarkComplete ==
    /\ pc = "idle"
    /\ \E task \in store : store' = {CompletedTask(task, args.today, args.dateutil)}
    /\ ret' = Some("complete")
    /\ UNCHANGED <<pc, utilVars, searchVars, args, created>>

TaskDelete ==
    /\ pc = "idle"
    /\ store # {}
    /\ store' = {}
    /\ ret' = Some("delete")
    /\ UNCHANGED <<pc, utilVars, searchVars, args, created>>

NextTask == TaskCreate \/ TaskUpdate \/ MarkComplete \/ TaskDelete

SpecTask == InitTask /\ [][NextTask]_vars

(***************************************************************************)
(* Claims about the scheduling of a task (SpecTask)                        *)
(***************************************************************************)
\* The frequencies with a fixed period, and a custom one with a positive
\* number of days
HasPeriod(task) ==
    \/ task.frequency \in {"daily", "weekly", "monthly", "quarterly", "semi_annual", "annual"}
    \/ task.frequency = "custom" /\ ~IsNone(task.interval_days) /\ Val(task.interval_days) > 0

\* as_needed, and custom without a number of days
HasNoPeriod(task) ==
    \/ task.frequency = "as_needed"
    \/ task.frequency = "custom" /\ (IsNone(task.interval_days) \/ Val(task.interval_days) = 0)

\* C26: after mark_maintenance_complete on a task of any frequency the
\* stored task has last_performed = today and a next_due that is not null,
\* computed from the frequency and later than last_performed.
C26_CompleteSetsNextDue ==
    ret = Some("complete") =>
        \A task \in store :
            /\ task.last_performed = Some(args.today)
            /\ ~IsNone(task.next_due)
            /\ task.next_due = calculate_next_due(task, args.dateutil)
            /\ Val(task.next_due) > Val(task.last_performed)

\* C26 as the code has it: after mark_maintenance_complete the stored task
\* has last_performed = today and next_due = calculate_next_due(); for the
\* frequencies daily to annual and for custom with a positive interval_days
\* that is a date later than last_performed, for as_needed and for custom
\* without interval_days it is null.
C26_CompleteSetsNextDueByPeriod ==
    ret = Some("complete") =>
        \A task \in store :
            /\ task.last_performed = Some(args.today)
            /\ task.next_due = calculate_next_due(task, args.dateutil)
            /\ HasPeriod(task) =>
                  ~IsNone(task.next_due) /\ Val(task.next_due) > Val(task.last_performed)
            /\ HasNoPeriod(task) => IsNone(task.next_due)

\* A monthly task completed on the last day of the year is due a month on
C26_Witness ==
    /\ ret = Some("complete")
    /\ args.today = Date(2024, 12, 31) /\ args.dateutil
    /\ \E task \in store :
          /\ task.frequency = "monthly"
          /\ task.last_performed = Some(Date(2024, 12, 31))
          /\ task.next_due = Some(Date(2025, 1, 31))

\* C29: after any sequence of create, update, save and mark-complete
\* operations on a task, whenever last_performed is set the stored next_due
\* equals calculate_next_due() for the task's current last_performed,
\* frequency and interval_days.
C29_NextDueFollowsSchedule ==
    \A task \in store :
        ~IsNone(task.last_performed) => task.next_due = calculate_next_due(task, args.dateutil)

(***************************************************************************)
(* Claim about the text of a failed primary extraction (SpecExtractText)   *)
(***************************************************************************)
\* C27: when the primary extractor raises after it has extracted text from
\* some pages, the text extract_text_from_pdf returns is the fallback
\* extractor's output alone: no text of the failed primary attempt is in
\* it, so no page's text appears twice.
C27_FallbackTextOnly ==
    (pc = "done" /\ PrimaryRaises(args.primary) /\ TextAtRaise(args.primary) # "")
        => ret.text = (IF FallbackRaises(args.fallback) THEN "" ELSE PyPdfText(args.fallback.pages))

(***************************************************************************)
(* Concurrent requests to views.extract_maintenance                        *)
(***************************************************************************)
MaxRequests == 2

Requests == 1..MaxRequests

\* The manuals of the appliance the requests are for
ManualC ==
    "Clean the condenser coils weekly with a soft brush. Replace the water filter "
        \o "cartridge monthly as shown on page 12."

ConcurrentManuals == {Some(ManualA), Some(ManualC), Some(ShortManual)}

\* A request that has not begun
NotBegun == [at |-> "idle", tasks |-> <<>>, n |-> 0]

\* After task n: the next task of the loop, or the end of the view
AfterTask(request) ==
    IF request.n < Len(request.tasks)
    THEN [request EXCEPT !.at = "get", !.n = request.n + 1]
    ELSE [request EXCEPT !.at = "done"]

\* SpecConcurrent: requests for appliance 1 served at the same time. pc
\* holds, for each request, where it stands (at), its local variable tasks
\* and the index n of the task of the loop
InitConcurrent ==
    /\ pc = [r \in Requests |-> NotBegun]
    /\ urlParts = NoUrl /\ valid = FALSE /\ hrefForm = "direct" /\ resolved = None
    /\ SearchIdle
    /\ args \in [manual : ConcurrentManuals]
    /\ ret = None
    /\ store = {}
    /\ created = <<>>

\* Lines 639-667: the text is extracted and mined; the view returns early
\* without text (line 655) or without tasks (line 662)
BeginImport ==
    /\ \E r \in Requests : \E api_key \in ApiKeys :
          /\ pc[r].at = "idle"
          /\ \E tasks \in {IF Len(Val(args.manual)) < 100 THEN <<>>
                           ELSE extract_maintenance_with_ai(Val(args.manual), api_key, FALSE)} :
                pc' = [pc EXCEPT ![r] = IF tasks = <<>> THEN [at |-> "done", tasks |-> <<>>, n |-> 0]
                                        ELSE [at |-> "get", tasks |-> tasks, n |-> 1]]
    /\ UNCHANGED <<utilVars, searchVars, docVars>>

\* get_or_create, first half: the lookup (lines 670-672).  More than one
\* row raises MultipleObjectsReturned, which line 684 catches
LookUp ==
    /\ \E r \in Requests :
          /\ pc[r].at = "get"
          /\ \E found \in {Existing(store, 1, pc[r].tasks[pc[r].n])} :
                pc' = [pc EXCEPT ![r] = IF Cardinality(found) > 1 THEN [@ EXCEPT !.at = "failed"]
                                        ELSE IF Cardinality(found) = 1 THEN AfterTask(@)
                                        ELSE [@ EXCEPT !.at = "create"]]
    /\ UNCHANGED <<utilVars, searchVars, docVars>>

\* get_or_create, second half: no row was found, one is created (lines
\* 673-681)
Insert ==
    /\ \E r \in Requests :
          /\ pc[r].at = "create"
          /\ store' = store \cup {ImportedRow(NextId(store), 1, pc[r].tasks[pc[r].n])}
          /\ pc' = [pc EXCEPT ![r] = AfterTask(@)]
    /\ UNCHANGED <<utilVars, searchVars, args, ret, created>>

NextConcurrent == BeginImport \/ LookUp \/ Insert

SpecConcurrent == InitConcurrent /\ [][NextConcurrent]_vars

\* C28: under any interleaving of two concurrent extract_maintenance
\* requests for one appliance the import never creates two MaintenanceTask
\* records with the same (appliance, task_name), and a later import never
\* fails because of duplicates an earlier one left.
C28_NoDuplicatesUnderConcurrency ==
    /\ \A row \in store : \A other \in store :
          (/\ row.extracted_from_manual /\ other.extracted_from_manual
           /\ row.appliance = other.appliance /\ row.task_name = other.task_name) => row = other
    /\ \A r \in Requests : pc[r].at # "failed"

(***************************************************************************)
(* The house views (views.py lines 74-113) and the roles of a house        *)
(***************************************************************************)
MaxHouses == 2

Users == {"ann", "bob", "cy"}

HouseRoles == {"owners", "admins", "viewers"}

\* House.can_user_view: owners, admins and viewers
can_user_view(house, user) == user \in house.owners \cup house.admins \cup house.viewers

\* House.can_user_edit: owners and admins
can_user_edit(house, user) == user \in house.owners \cup house.admins

\* House.can_user_delete: owners only
can_user_delete(house, user) == user \in house.owners

\* require_house_access (permissions.py lines 40-63) lets the request pass
HasHouseAccess(user, house, require_edit) ==
    IF require_edit THEN can_user_edit(house, user) ELSE can_user_view(house, user)

\* The role lists HouseUpdateView's form can post: the stored lists with one
\* user put on or taken off one list
PostedRoles(house) ==
    {[house EXCEPT ![role] = @ \cup {user}] : role \in HouseRoles, user \in Users}
        \cup {[house EXCEPT ![role] = @ \ {user}] : role \in HouseRoles, user \in Users}

\* SpecHouse: requests to the house views, one house at a time. store holds
\* the house, created the ids of the houses created, ret the request
\* served last
InitHouse ==
    /\ pc = "idle"
    /\ urlParts = NoUrl /\ valid = FALSE /\ hrefForm = "direct" /\ resolved = None
    /\ SearchIdle
    /\ args = None
    /\ ret = None
    /\ store = {}
    /\ created = <<>>

\* HouseCreateView.form_valid (lines 80-85)
HouseCreate ==
    /\ pc = "idle"
    /\ store = {}
    /\ Len(created) < MaxHouses
    /\ \E user \in Users :
          /\ store' = {[id |-> Len(created) + 1, owners |-> {user}, admins |-> {}, viewers |-> {}]}
          /\ ret' = Some([op |-> "create", user |-> user])
    /\ created' = Append(created, Len(created) + 1)
    /\ UNCHANGED <<pc, utilVars, searchVars, args>>

\* HouseUpdateView (lines 88-97): get_object asks for edit access, the form
\* stores the posted owners, admins and viewers
HouseUpdate ==
    /\ pc = "idle"
    /\ \E house \in store : \E user \in Users : \E posted \in PostedRoles(house) :
          /\ HasHouseAccess(user, house, TRUE)
          /\ store' = {posted}
          /\ ret' = Some([op |-> "update", user |-> user])
    /\ UNCHANGED <<pc, utilVars, searchVars, args, created>>

\* HouseDeleteView (lines 100-113)
HouseDelete ==
    /\ pc = "idle"
    /\ \E house \in store : \E user \in Users :
          /\ HasHouseAccess(user, house, TRUE)
          /\ can_user_delete(house, user)
          /\ store' = {}
          /\ ret' = Some([op |-> "delete", user |-> user])
    /\ UNCHANGED <<pc, utilVars, searchVars, args, created>>

NextHouse == HouseCreate \/ HouseUpdate \/ HouseDelete

SpecHouse == InitHouse /\ [][NextHouse]_vars

\* C30: only owners can delete a house: a user who holds only the admin or
\* the viewer role on a house cannot, by any sequence of requests to the
\* house views, delete the house or become one of its owners unless an
\* owner grants it.
C30_OnlyOwnersDeleteOrGrant ==
    [][\A house \in store :
          /\ (\A after \in store' : after.id # house.id) => Val(ret').user \in house.owners
          /\ \A after \in store' :
                (after.id = house.id /\ after.owners \ house.owners # {})
                    => Val(ret').user \in house.owners]_vars

====
